---- MODULE Spec2Model ----
(***************************************************************************)
(* Model of the uCIR interpreter (src/uc_interpreter.py).                  *)
(*                                                                         *)
(* The interpreter state is the set of fields of class Interpreter plus    *)
(* the module-level memory M.  One action models one loader step or one    *)
(* iteration of the main loop of Interpreter.run, i.e. the fetch, the      *)
(* dispatch and the whole handler that the dispatch invokes.               *)
(*                                                                         *)
(* Strings that the code takes apart (opcodes, label tuples, names) are    *)
(* sequences of pieces, so that split('_'), [:-1], startswith and '+' are  *)
(* computed rather than assumed.  Memory cells are tagged records.         *)
(***************************************************************************)
EXTENDS Integers, Sequences, FiniteSets, TLC

(***************************************************************************)
(* Bounds of the model.                                                    *)
(***************************************************************************)
\* number of cells of M (10000 in the source; scaled down so that programs
\* of a few instructions reach the end of memory)
Capacity == 24
\* largest literal / loop count the programs are instantiated with
MaxVal == 3
\* rounds of the end-of-file loop of _get_input that are followed
MaxEofRounds == 3
\* lines entered at the debugger prompts of one run
MaxCommands == 3

(***************************************************************************)
(* Cells.  Python values held in M: None, ints (also PCs and offsets),     *)
(* booleans.                                                               *)
(***************************************************************************)
None == [t |-> "none", v |-> 0]

IntV(n) == [t |-> "int", v |-> n]

BoolV(b) == [t |-> "bool", v |-> IF b THEN 1 ELSE 0]

\* the characters of the input text
Chars == <<"0", "1", "2", "3", "4", "5", "6", "7", "8", "9", "-", ".", "x", " ",
           "\n">>

CharIndex(c) == CHOOSE i \in 1..Len(Chars) : Chars[i] = c

\* a str is held in a cell as the number that spells its characters in base
\* 16 (first character lowest), a float as its value in tenths
RECURSIVE StrCode(_)
StrCode(text) ==
    IF text = <<>> THEN 0 ELSE CharIndex(Head(text)) + 16 * StrCode(Tail(text))

StrV(text) == [t |-> "str", v |-> StrCode(text)]

FloatV(tenths) == [t |-> "float", v |-> tenths]

\* Python truth value of a cell (None, 0 and False are falsy)
Truthy(c) == c.t # "none" /\ c.v # 0

\* a cell can be used as a list index iff it is an int (bool is an int)
IsIndex(c) == c.t \in {"int", "bool"}

(***************************************************************************)
(* Python list indexing and slice assignment on M.  Offsets are 0-based;   *)
(* a negative index i with -len <= i counts from the end.                  *)
(***************************************************************************)
IndexOK(m, i) == i >= 0 - Len(m) /\ i < Len(m)

Pos(m, i) == IF i < 0 THEN Len(m) + i + 1 ELSE i + 1

Min(a, b) == IF a < b THEN a ELSE b

Max(a, b) == IF a > b THEN a ELSE b

\* m[a:b] for 0 <= a, b
Slice(m, a, b) == SubSeq(m, Min(a, Len(m)) + 1, Min(b, Len(m)))

\* m[a:b] = l for 0 <= a, b : never raises, may change len(m)
SliceAssign(m, a, b, l) ==
    LET lo == Min(a, Len(m))
        hi == Max(lo, Min(b, Len(m)))
    IN  SubSeq(m, 1, lo) \o l \o SubSeq(m, hi + 1, Len(m))

Zeros(n) == [i \in 1..n |-> IntV(0)]

(***************************************************************************)
(* Strings as sequences of pieces.                                         *)
(***************************************************************************)
RECURSIVE Join(_)
Join(text) == IF text = <<>> THEN "" ELSE Head(text) \o Join(Tail(text))

RECURSIVE SplitAcc(_, _, _)
SplitAcc(text, cur, out) ==
    IF text = <<>> THEN Append(out, cur)
    ELSE IF Head(text) = "_" THEN SplitAcc(Tail(text), "", Append(out, cur))
    ELSE SplitAcc(Tail(text), cur \o Head(text), out)

\* source.split('_')
Split(text) == SplitAcc(text, "", <<>>)

\* s[:-1] (the last piece of a text is its last character)
ChopLast(text) == SubSeq(text, 1, Len(text) - 1)

\* s.startswith(w) for a word w that is a whole first piece
StartsWith(text, w) == Len(text) > 0 /\ text[1] = w

\* str.isdigit() and int() on a shape segment
DigitVal == [s \in {"0", "1", "2", "3", "4", "5", "6", "7", "8", "9"} |->
              CASE s = "0" -> 0 [] s = "1" -> 1 [] s = "2" -> 2 [] s = "3" -> 3
                [] s = "4" -> 4 [] s = "5" -> 5 [] s = "6" -> 6 [] s = "7" -> 7
                [] s = "8" -> 8 [] s = "9" -> 9]

IsDigit(s) == s \in DOMAIN DigitVal

\* the value of a string of digits
RECURSIVE DigitsVal(_, _)
DigitsVal(text, n) ==
    IF text = <<>> THEN n ELSE DigitsVal(Tail(text), 10 * n + DigitVal[Head(text)])

AllDigits(text) == \A i \in 1..Len(text) : IsDigit(text[i])

\* the token without a leading sign
Unsigned(text) ==
    IF text # <<>> /\ Head(text) = "-" THEN Tail(text) ELSE text

Signed(text, n) == IF text # <<>> /\ Head(text) = "-" THEN 0 - n ELSE n

\* int(v1): [ok, v]; not ok is ValueError
ParseInt(text) ==
    LET body == Unsigned(text)
    IN  IF body # <<>> /\ AllDigits(body)
        THEN [ok |-> TRUE, v |-> IntV(Signed(text, DigitsVal(body, 0)))]
        ELSE [ok |-> FALSE, v |-> None]

\* float(v1): [ok, v]; digits with at most one point and at least one digit
\* (the input texts have at most one digit after the point)
ParseFloat(text) ==
    LET body == Unsigned(text)
        dots == {i \in 1..Len(body) : body[i] = "."}
        dot == IF dots = {} THEN Len(body) + 1 ELSE CHOOSE i \in dots : TRUE
        whole == SubSeq(body, 1, dot - 1)
        frac == SubSeq(body, dot + 1, Len(body))
    IN  IF /\ Cardinality(dots) <= 1
           /\ AllDigits(whole) /\ AllDigits(frac)
           /\ Len(whole) + Len(frac) > 0
        THEN [ok |-> TRUE,
              v |-> FloatV(Signed(text,
                        10 * DigitsVal(whole, 0)
                        + (IF frac = <<>> THEN 0 ELSE DigitVal[frac[1]])))]
        ELSE [ok |-> FALSE, v |-> None]

\* sys.stdin.readline(): [line, rest]; the line keeps its terminator
ReadLine(text) ==
    LET ends == {i \in 1..Len(text) : text[i] = "\n"}
        n == IF ends = {} THEN Len(text)
             ELSE CHOOSE i \in ends : \A j \in ends : i <= j
    IN  [line |-> SubSeq(text, 1, n), rest |-> SubSeq(text, n + 1, Len(text))]

IsSpace(c) == c \in {" ", "\n"}

\* line.strip().split(): the maximal runs of non-whitespace characters
RECURSIVE SplitWords(_, _, _)
SplitWords(text, cur, words) ==
    IF text = <<>> THEN (IF cur = <<>> THEN words ELSE Append(words, cur))
    ELSE IF IsSpace(Head(text))
         THEN SplitWords(Tail(text), <<>>,
                         IF cur = <<>> THEN words ELSE Append(words, cur))
         ELSE SplitWords(Tail(text), Append(cur, Head(text)), words)

\* names are <<sigil, identifier>>: ("@", "main") is '@main'
G(n) == <<"@", n>>

R(n) == <<"%", n>>

IsGlobalName(n) == n[1] = "@"

EmptyDict == [n \in {} |-> 0]

Put(d, k, v) == [n \in DOMAIN d \cup {k} |-> IF n = k THEN v ELSE d[n]]

(***************************************************************************)
(* Opcode decoder.                                                         *)
(***************************************************************************)
SpecialOps == {"fptosi", "sitofp", "label", "jump", "cbranch", "call"}

RECURSIVE ShapeOf(_)
ShapeOf(segs) ==
    IF segs = <<>> THEN <<>>
    ELSE IF IsDigit(Head(segs)) \/ Head(segs) = "*"
         THEN <<Head(segs)>> \o ShapeOf(Tail(segs))
         ELSE ShapeOf(Tail(segs))

\* (ok, opcode, modifier); ok is FALSE where _aux[1] raises IndexError
_extract_operation(source) ==
    LET _aux == Split(source)
    IN  IF _aux[1] \notin SpecialOps
        THEN IF Len(_aux) < 2
             THEN [ok |-> FALSE, opcode |-> _aux[1], modifier |-> <<>>]
             ELSE [ok |-> TRUE, opcode |-> _aux[1] \o "_" \o _aux[2],
                   modifier |-> ShapeOf(SubSeq(_aux, 3, Len(_aux)))]
        ELSE [ok |-> TRUE, opcode |-> _aux[1], modifier |-> <<>>]

\* a loader that reserves one cell whatever the dims are
DimProductFlat(modifier) == 1

RECURSIVE DimProduct(_)
DimProduct(modifier) ==
    IF modifier = <<>> THEN 1
    ELSE (IF IsDigit(Head(modifier)) THEN DigitVal[Head(modifier)] ELSE 1)
         * DimProduct(Tail(modifier))

RECURSIVE RefCount(_)
RefCount(modifier) ==
    IF modifier = <<>> THEN 0
    ELSE (IF Head(modifier) = "*" THEN 1 ELSE 0) + RefCount(Tail(modifier))

(***************************************************************************)
(* Instructions.  An instruction tuple (opcode, *args) is the record       *)
(* [op |-> opcode text, a |-> args]; len(tuple) = 1 + Len(a).              *)
(***************************************************************************)
Ins(text, args) == [op |-> text, a |-> args]

Op(o, t) == <<o, "_", t>>

OpS(o, t, sh) == <<o, "_", t, "_", sh>>

Lbl(n) == Ins(<<n, ":">>, <<>>)

ReturnVoid == Ins(<<"return", "_", "voi", "d">>, <<>>)

PrintVoid == Ins(<<"print", "_", "voi", "d">>, <<>>)

TupleLen(ins) == 1 + Len(ins.a)

(***************************************************************************)
(* The programs the interpreter is run on.  prog = [id, k, j] selects a    *)
(* program and instantiates its literals.                                  *)
(***************************************************************************)
\* S3: main passes k + 2 to @sq and prints the square
ProgSq(k) == <<
    Ins(Op("define", "int"), <<G("sq"), << <<"int", R("x")>> >> >>),
    Ins(Op("mul", "int"), <<R("x"), R("x"), R("r")>>),
    Ins(Op("return", "int"), <<R("r")>>),
    Ins(Op("define", "void"), <<G("main"), <<>> >>),
    Ins(Op("literal", "int"), <<IntV(k + 2), R("1")>>),
    Ins(Op("param", "int"), <<R("1")>>),
    Ins(<<"call">>, <<G("sq"), R("2")>>),
    Ins(Op("print", "int"), <<R("2")>>),
    PrintVoid,
    ReturnVoid >>

\* recursion of depth k: @f(n) = n + @f(n-1), @f(0) = 0; main exits with @f(k)
ProgRec(k) == <<
    Ins(Op("define", "int"), <<G("f"), << <<"int", R("n")>> >> >>),
    Ins(<<"cbranch">>, <<R("n"), R("rec"), R("base")>>),
    Lbl("rec"),
    Ins(Op("literal", "int"), <<IntV(1), R("one")>>),
    Ins(Op("sub", "int"), <<R("n"), R("one"), R("m")>>),
    Ins(Op("param", "int"), <<R("m")>>),
    Ins(<<"call">>, <<G("f"), R("t")>>),
    Ins(Op("add", "int"), <<R("t"), R("n"), R("s")>>),
    Ins(Op("return", "int"), <<R("s")>>),
    Lbl("base"),
    Ins(Op("return", "int"), <<R("n")>>),
    Ins(Op("define", "int"), <<G("main"), <<>> >>),
    Ins(Op("literal", "int"), <<IntV(k), R("1")>>),
    Ins(Op("param", "int"), <<R("1")>>),
    Ins(<<"call">>, <<G("f"), R("2")>>),
    Ins(Op("return", "int"), <<R("2")>>) >>

\* nested calls: main -> @g (void) -> @h
ProgNest(k) == <<
    Ins(Op("define", "int"), <<G("h"), << <<"int", R("a")>> >> >>),
    Ins(Op("literal", "int"), <<IntV(1), R("one")>>),
    Ins(Op("add", "int"), <<R("a"), R("one"), R("b")>>),
    Ins(Op("return", "int"), <<R("b")>>),
    Ins(Op("define", "void"), <<G("g"), << <<"int", R("x")>> >> >>),
    Ins(Op("alloc", "int"), <<R("w")>>),
    Ins(Op("param", "int"), <<R("x")>>),
    Ins(<<"call">>, <<G("h"), R("y")>>),
    Ins(Op("print", "int"), <<R("y")>>),
    ReturnVoid,
    Ins(Op("define", "int"), <<G("main"), <<>> >>),
    Ins(Op("literal", "int"), <<IntV(k), R("1")>>),
    Ins(Op("param", "int"), <<R("1")>>),
    Ins(<<"call">>, <<G("g"), R("2")>>),
    Ins(Op("return", "int"), <<R("1")>>) >>

\* the allocating instruction that ProgLoop repeats
LoopBody(j) ==
    CASE j = 0 -> Ins(Op("alloc", "int"), <<R("x")>>)
      [] j = 1 -> Ins(Op("literal", "int"), <<IntV(5), R("x")>>)
      [] j = 2 -> Ins(OpS("alloc", "int", "2"), <<R("a")>>)
      [] j = 3 -> Ins(OpS("load", "int", "2"), <<R("a"), R("b")>>)
      [] j = 4 -> Ins(OpS("alloc", "int", "9"), <<R("big")>>)

\* a loop that executes LoopBody(j) k times (once if k = 0)
ProgLoop(k, j) == <<
    Ins(Op("define", "int"), <<G("main"), <<>> >>),
    Ins(Op("literal", "int"), <<IntV(0), R("i")>>),
    Ins(OpS("alloc", "int", "2"), <<R("a")>>),
    Lbl("loop"),
    LoopBody(j),
    Ins(Op("literal", "int"), <<IntV(1), R("one")>>),
    Ins(Op("add", "int"), <<R("i"), R("one"), R("i")>>),
    Ins(Op("literal", "int"), <<IntV(k), R("n")>>),
    Ins(Op("lt", "int"), <<R("i"), R("n"), R("c")>>),
    Ins(<<"cbranch">>, <<R("c"), R("loop"), R("end")>>),
    Lbl("end"),
    Ins(Op("return", "int"), <<R("i")>>) >>

TypeTag(j) == CASE j % 3 = 0 -> "int" [] j % 3 = 1 -> "float" [] j % 3 = 2 -> "char"

\* address-of and dereferencing load, for each type tag, with the pointer
\* register %p allocated beforehand (j < 3) or not (j >= 3)
ProgPtr(k, j) == <<
    Ins(Op("define", "int"), <<G("main"), <<>> >>),
    Ins(Op("literal", "int"), <<IntV(k), R("x")>>),
    Ins(Op("alloc", "int"), <<IF j < 3 THEN R("p") ELSE R("q")>>),
    Ins(OpS("get", TypeTag(j), "*"), <<R("x"), R("p")>>),
    Ins(OpS("load", TypeTag(j), "*"), <<R("p"), R("r")>>),
    Ins(Op("return", "int"), <<R("r")>>) >>

\* store then load, scalar and through a pointer, for each type tag; the
\* pointer holds the offset of a local (j < 3), of a global (j < 6) or of its
\* own cell (j = 6)
StoreTarget(j) == IF j < 3 THEN R("y") ELSE IF j < 6 THEN G("gv") ELSE R("p")

ProgStore(k, j) == <<
    Ins(Op("global", "int"), <<G("gv"), IntV(0)>>),
    Ins(Op("define", "int"), <<G("main"), <<>> >>),
    Ins(Op("literal", "int"), <<IntV(k), R("s")>>),
    Ins(Op("alloc", "int"), <<R("y")>>),
    Ins(Op("store", TypeTag(j)), <<R("s"), R("y")>>),
    Ins(Op("load", TypeTag(j)), <<R("y"), R("d")>>),
    Ins(Op("alloc", "int"), <<R("p")>>),
    Ins(OpS("get", "int", "*"), <<StoreTarget(j), R("p")>>),
    Ins(Op("literal", "int"), <<IntV(k + 1), R("s2")>>),
    Ins(OpS("store", TypeTag(j), "*"), <<R("s2"), R("p")>>),
    Ins(OpS("load", TypeTag(j), "*"), <<R("p"), R("e")>>),
    Ins(Op("store", IF j < 3 THEN TypeTag(j) ELSE "bool"), <<R("s"), G("gv")>>),
    Ins(Op("load", IF j < 3 THEN TypeTag(j) ELSE "bool"), <<G("gv"), R("f")>>),
    Ins(Op("return", "int"), <<R("e")>>) >>

\* index used by ProgElem: inside the array, below 0, past the end of M
ElemIndex(k, j) ==
    CASE j = 0 -> k
      [] j = 1 -> 0 - (k + 3)
      [] j = 2 -> Capacity + k
      [] j = 3 -> 0 - (2 * Capacity) - k - 2

\* S4: store 7 at an index of a 3-cell array and load it back
ProgElem(k, j) == <<
    Ins(Op("define", "void"), <<G("main"), <<>> >>),
    Ins(OpS("alloc", "int", "3"), <<R("a")>>),
    Ins(Op("literal", "int"), <<IntV(7), R("v")>>),
    Ins(Op("literal", "int"), <<IntV(ElemIndex(k, j)), R("i")>>),
    Ins(Op("elem", "int"), <<R("a"), R("i"), R("p")>>),
    Ins(OpS("store", "int", "*"), <<R("v"), R("p")>>),
    Ins(OpS("load", "int", "*"), <<R("p"), R("r")>>),
    Ins(Op("print", "int"), <<R("r")>>),
    PrintVoid,
    ReturnVoid >>

\* instructions the dispatch has to cope with
OddIns(j) ==
    CASE j = 0 -> Ins(Op("foo", "int"), <<R("x")>>)
      [] j = 1 -> Ins(OpS("load", "bool", "*"), <<R("p"), R("r")>>)
      [] j = 2 -> Ins(OpS("get", "float", "*"), <<R("x"), R("p")>>)
      [] j = 3 -> Ins(Op("get", "int"), <<R("x"), R("p")>>)
      [] j = 4 -> Ins(OpS("print", "int", "*"), <<R("p")>>)
      [] j = 5 -> Ins(OpS("load", "int", "*"), <<R("0"), R("r")>>)
      [] j = 6 -> Ins(OpS("bar", "int", "2"), <<R("x")>>)
      [] j = 7 -> Ins(<<"foo">>, <<R("x")>>)

\* a main that executes OddIns(j) and runs off the end of the code
ProgOdd(k, j) == <<
    Ins(Op("define", "int"), <<G("main"), <<>> >>),
    Ins(Op("literal", "int"), <<IntV(k), R("x")>>),
    Ins(Op("alloc", "int"), <<R("p")>>),
    OddIns(j),
    Ins(Op("not", "bool"), <<R("x"), R("nb")>>),
    Ins(Op("print", "bool"), <<R("nb")>>) >>

\* S6: if / else on k
ProgIf(k) == <<
    Ins(Op("define", "void"), <<G("main"), <<>> >>),
    Ins(Op("literal", "int"), <<IntV(k), R("c")>>),
    Ins(<<"cbranch">>, <<R("c"), R("then"), R("else")>>),
    Lbl("then"),
    Ins(Op("literal", "int"), <<IntV(1), R("r")>>),
    Ins(<<"jump">>, <<R("end")>>),
    Lbl("else"),
    Ins(Op("literal", "int"), <<IntV(2), R("r")>>),
    Lbl("end"),
    Ins(Op("print", "int"), <<R("r")>>),
    PrintVoid,
    ReturnVoid >>

\* a function with two parameters and a label, called from one branch of
\* main, which has labels of its own
ProgLab(k) == <<
    Ins(Op("define", "int"), <<G("f"), <<<<"int", R("a")>>, <<"int", R("b")>> >> >>),
    Ins(<<"jump">>, <<R("out")>>),
    Lbl("out"),
    Ins(Op("sub", "int"), <<R("a"), R("b"), R("d")>>),
    Ins(Op("store", "int"), <<R("d"), R("a")>>),
    Ins(Op("return", "int"), <<R("d")>>),
    Ins(Op("define", "int"), <<G("main"), <<>> >>),
    Ins(Op("literal", "int"), <<IntV(k), R("1")>>),
    Ins(Op("literal", "int"), <<IntV(7), R("3")>>),
    Ins(<<"cbranch">>, <<R("1"), R("then"), R("else")>>),
    Lbl("then"),
    Ins(Op("param", "int"), <<R("3")>>),
    Ins(Op("param", "int"), <<R("1")>>),
    Ins(<<"call">>, <<G("f"), R("2")>>),
    Ins(<<"jump">>, <<R("end")>>),
    Lbl("else"),
    Ins(Op("literal", "int"), <<IntV(0), R("2")>>),
    Lbl("end"),
    Ins(Op("return", "int"), <<R("2")>>) >>

\* the initializer of the 3-cell global of ProgGlob: 3 items, or only 2
GlobInit(k, j) ==
    IF j = 1 THEN <<IntV(1), IntV(k)>> ELSE <<IntV(1), IntV(2), IntV(k)>>

\* globals with and without initializer, shaped load and store of a global;
\* the variant j = 2 has no function named @main
ProgGlob(k, j) == <<
    Ins(Op("global", "int"), <<G("a"), IntV(k)>>),
    Ins(OpS("global", "int", "3"), <<G("arr"),
        [kind |-> "list", items |-> GlobInit(k, j)]>>),
    Ins(OpS("global", "int", "2"), <<G("e")>>),
    Ins(Op("define", "int"), <<G(IF j = 2 THEN "f" ELSE "main"), <<>> >>),
    Ins(Op("load", "int"), <<G("a"), R("1")>>),
    Ins(OpS("load", "int", "3"), <<G("arr"), R("b")>>),
    Ins(OpS("store", "int", "2"), <<R("b"), G("e")>>),
    Ins(Op("return", "int"), <<R("1")>>) >>

\* S4 for each type tag: two cells of a 3-cell array are written through
\* elem, then the first is read back through a fresh elem
ProgArr(k, j) == <<
    Ins(Op("define", "int"), <<G("main"), <<>> >>),
    Ins(OpS("alloc", TypeTag(j), "3"), <<R("a")>>),
    Ins(Op("literal", "int"), <<IntV(7), R("v")>>),
    Ins(Op("literal", "int"), <<IntV(k % 3), R("i")>>),
    Ins(Op("elem", TypeTag(j)), <<R("a"), R("i"), R("p")>>),
    Ins(OpS("store", TypeTag(j), "*"), <<R("v"), R("p")>>),
    Ins(Op("literal", "int"), <<IntV(9), R("w")>>),
    Ins(Op("literal", "int"), <<IntV((k + 1) % 3), R("i2")>>),
    Ins(Op("elem", TypeTag(j)), <<R("a"), R("i2"), R("p2")>>),
    Ins(OpS("store", TypeTag(j), "*"), <<R("w"), R("p2")>>),
    Ins(Op("elem", TypeTag(j)), <<R("a"), R("i"), R("q")>>),
    Ins(OpS("load", TypeTag(j), "*"), <<R("q"), R("r")>>),
    Ins(Op("return", "int"), <<R("r")>>) >>

\* what the callee of ProgFrame does besides its local work: nothing, a
\* store to a global, a store through the pointer it was passed
FrameIns(j) ==
    CASE j = 0 -> Ins(Op("literal", "int"), <<IntV(4), R("t")>>)
      [] j = 1 -> Ins(Op("store", "int"), <<R("n"), G("g")>>)
      [] j = 2 -> Ins(OpS("store", "int", "*"), <<R("t"), R("n")>>)

\* a callee with a parameter, temporaries and arrays, called from a main
\* that has cells of its own; for j = 2 the argument is a pointer to %b
ProgFrame(k, j) == <<
    Ins(Op("global", "int"), <<G("g"), IntV(0)>>),
    Ins(Op("define", "int"), <<G("f"), << <<"int", R("n")>> >> >>),
    Ins(OpS("alloc", "int", "2"), <<R("arr")>>),
    Ins(Op("literal", "int"), <<IntV(k + 1), R("t")>>),
    FrameIns(j),
    Ins(Op("add", "int"), <<R("n"), R("t"), R("u")>>),
    Ins(Op("store", "int"), <<R("u"), R("n")>>),
    Ins(OpS("load", "int", "2"), <<R("arr"), R("c")>>),
    Ins(Op("return", "int"), <<R("u")>>),
    Ins(Op("define", "int"), <<G("main"), <<>> >>),
    Ins(OpS("alloc", "int", "2"), <<R("m")>>),
    Ins(Op("literal", "int"), <<IntV(5), R("b")>>),
    Ins(Op("alloc", "int"), <<R("p")>>),
    Ins(OpS("get", "int", "*"), <<R("b"), R("p")>>),
    Ins(Op("param", "int"), <<IF j = 2 THEN R("p") ELSE R("b")>>),
    Ins(<<"call">>, <<G("f"), R("r")>>),
    Ins(Op("return", "int"), <<R("b")>>) >>

\* the two reads of ProgRead
ReadIns(k, n) ==
    CASE k % 4 = 0 -> IF n = 1 THEN Ins(Op("read", "int"), <<R("x")>>)
                      ELSE Ins(OpS("read", "int", "*"), <<R("p")>>)
      [] k % 4 = 1 -> IF n = 1 THEN Ins(Op("read", "float"), <<R("x")>>)
                      ELSE Ins(OpS("read", "float", "*"), <<R("p")>>)
      [] k % 4 = 2 -> IF n = 1 THEN Ins(Op("read", "char"), <<R("x")>>)
                      ELSE Ins(OpS("read", "char", "*"), <<R("p")>>)
      [] k % 4 = 3 -> IF n = 1 THEN Ins(Op("read", "int"), <<R("x")>>)
                      ELSE Ins(Op("read", "int"), <<R("y")>>)

\* two reads, into %x and (directly or through %p) into %y, which are printed
ProgRead(k, j) == <<
    Ins(Op("define", "int"), <<G("main"), <<>> >>),
    Ins(Op("alloc", "int"), <<R("x")>>),
    Ins(Op("alloc", "int"), <<R("y")>>),
    Ins(Op("alloc", "int"), <<R("p")>>),
    Ins(OpS("get", "int", "*"), <<R("y"), R("p")>>),
    ReadIns(k, 1),
    ReadIns(k, 2),
    Ins(Op("print", "int"), <<R("x")>>),
    Ins(Op("print", "int"), <<R("y")>>),
    PrintVoid,
    Ins(Op("literal", "int"), <<IntV(0), R("z")>>),
    Ins(Op("return", "int"), <<R("z")>>) >>

\* the text on standard input of ProgRead
InputText(j) ==
    CASE j = 0 -> <<"1", "2", " ", "7", "\n">>
      [] j = 1 -> <<"x", "1", "\n", "5", "\n">>
      [] j = 2 -> <<"\n", " ", " ", "3", ".", "5", "\n", "-", "4", "2">>
      [] j = 3 -> <<>>
      [] j = 4 -> <<"7", "\n">>
      [] j = 5 -> <<"1", ".", "5", " ", "x", "\n">>

\* what sys.stdin holds when run is called
StdinOf(p) == IF p.id = 13 THEN InputText(p.j) ELSE <<>>

\* the debug argument of Interpreter(): ProgSq(0) is also run in debug mode
DebugOf(p) == IF p.id = 1 /\ p.k = 0 THEN {FALSE, TRUE} ELSE {FALSE}

ProgIds == 1..14

ProgramOf(p) ==
    CASE p.id = 1 -> ProgSq(p.k)
      [] p.id = 2 -> ProgRec(p.k)
      [] p.id = 3 -> ProgNest(p.k)
      [] p.id = 4 -> ProgLoop(p.k, p.j)
      [] p.id = 5 -> ProgPtr(p.k, p.j)
      [] p.id = 6 -> ProgStore(p.k, p.j)
      [] p.id = 7 -> ProgElem(p.k, p.j)
      [] p.id = 8 -> ProgOdd(p.k, p.j)
      [] p.id = 9 -> ProgIf(p.k)
      [] p.id = 10 -> ProgGlob(p.k, p.j)
      [] p.id = 11 -> ProgArr(p.k, p.j)
      [] p.id = 12 -> ProgFrame(p.k, p.j)
      [] p.id = 13 -> ProgRead(p.k, p.j)
      [] p.id = 14 -> ProgLab(p.k)

\* number of variants (values of j) of each program
Variants(id) ==
    CASE id = 4 -> 5 [] id = 5 -> 6 [] id = 6 -> 7 [] id = 7 -> 4 [] id = 8 -> 8
      [] id = 10 -> 3 [] id = 11 -> 3 [] id = 12 -> 3
      [] id = 13 -> 6 [] OTHER -> 1

Inputs ==
    {p \in [id : ProgIds, k : 0..MaxVal, j : 0..7] : p.j < Variants(p.id)}

(***************************************************************************)
(* The callers of the error reporting of src/uc.py: the handlers that are  *)
(* subscribed and the arguments error() is called with.  A line number of  *)
(* 0 and a file name of "" stand for the falsy values (None, 0, '').       *)
(***************************************************************************)
\* error() calls of one behaviour
MaxErrors == 2
\* nesting depth of the with-blocks
MaxNesting == 2

Handlers == {"h1", "h2"}

Linenos == {0, 7}

Filenames == {"", "a.uc"}

\* the (lineno, filename) arguments of the error() call number n: the first
\* call of a behaviour takes every combination, the later ones carry both
ErrorArgs(n) == IF n = 0 THEN Linenos \X Filenames ELSE {<<7, "a.uc">>}

(***************************************************************************)
(* State.                                                                  *)
(***************************************************************************)
VARIABLES
    prog,       \* the ircode argument of Interpreter.run
    phase,      \* "load", "run", "end" (fell off the code), "exit", "fatal"
    M,          \* memory
    globals,    \* self.globals
    vars,       \* self.vars
    offset,     \* self.offset
    stack,      \* self.stack
    sp,         \* self.sp
    params,     \* self.params
    registers,  \* self.registers
    returns,    \* self.returns
    pc,         \* self.pc
    start,      \* self.start
    lastpc,     \* self.lastpc
    exitcode,   \* argument of sys.exit
    out,        \* what was written to stdout, one entry per print
    warnings,   \* number of "Warning: No run_...() method" diagnostics
    inputline,  \* the module global inputline: the tokens not yet consumed
    stdin,      \* the characters of sys.stdin not yet read
    acc,        \* history: the indices M was subscripted with by the last step
    frames,     \* history: one record per call that has not returned
    last,       \* history: the last executed step
    prev        \* history: the step before it

ivars == <<prog, phase, M, globals, vars, offset, stack, sp, params, registers,
           returns, pc, start, lastpc, exitcode, out, warnings, inputline, stdin>>

\* the debugger (idb) of the interpreter
VARIABLES
    debug,          \* self.debug
    _breakpoint,    \* the local _breakpoint of run: None or an int cell
    nest,           \* _parse_input calls that are waiting for a line
    ready,          \* the debugger block of this iteration has been passed
    commands        \* history: the commands entered at the prompts

dvars == <<debug, _breakpoint, nest, ready, commands>>

allvars == <<ivars, dvars, acc, frames, last, prev>>

\* the error reporting of the driver (src/uc.py)
VARIABLES
    _subscribers,   \* the module list _subscribers (handlers, in order)
    _num_errors,    \* the module counter _num_errors
    received,       \* what each handler was called with, in order
    blocks,         \* the handlers of the with-blocks that are active
    reported,       \* history: error() calls since the last clear_errors()
    expect,         \* history: the messages sent while a block of the handler
                    \* was active, once per such block
    calls,          \* history: error() calls made so far
    elast           \* history: the last operation and the list before it

evars == <<_subscribers, _num_errors, received, blocks, reported, expect, calls,
           elast>>

\* the command-line driver (run_compiler and Compiler.compile of src/uc.py,
\* Compiler.compile of src/src/uc.py)
VARIABLES
    driver,     \* "old" (src/uc.py), "new" (src/src/uc.py), "off" (not run)
    files,      \* the source files named on the command line, in order
    opt,        \* -opt
    run_ir,     \* not -no-run
    cfg,        \* -cfg
    llvm,       \* --llvm (src/src/uc.py only)
    cfile,      \* index in files of the file being compiled (0: none yet)
    cstage,     \* where the driver is: "files", "parse", "sema", "codegen",
                \* "report", "done"
    events      \* history: the stages that have run, in order

cvars == <<driver, files, opt, run_ir, cfg, llvm, cfile, cstage, events>>

Code == ProgramOf(prog)

(***************************************************************************)
(* The interpreter state as a record, threaded through the handlers.  err  *)
(* is set when a Python exception has been raised (all of them propagate   *)
(* out of run), exited when sys.exit has been called, hang when the        *)
(* handler is in a loop it does not leave; every later statement of the    *)
(* handler is then skipped.                                                *)
(***************************************************************************)
Cur ==
    [M |-> M, globals |-> globals, vars |-> vars, offset |-> offset,
     stack |-> stack, sp |-> sp, params |-> params, registers |-> registers,
     returns |-> returns, pc |-> pc, start |-> start, exitcode |-> exitcode,
     out |-> out, warnings |-> warnings, inputline |-> inputline,
     stdin |-> stdin, acc |-> {}, err |-> FALSE, exited |-> FALSE,
     hang |-> FALSE]

Live(s) == ~s.err /\ ~s.exited /\ ~s.hang

Raise(s) == IF Live(s) THEN [s EXCEPT !.err = TRUE] ELSE s

\* M[i] as an expression: [s, v]
getitem(s, i) ==
    IF ~Live(s) THEN [s |-> s, v |-> None]
    ELSE IF IndexOK(s.M, i)
         THEN [s |-> [s EXCEPT !.acc = @ \cup {i}], v |-> s.M[Pos(s.M, i)]]
         ELSE [s |-> [s EXCEPT !.acc = @ \cup {i}, !.err = TRUE], v |-> None]

\* M[i] = c
setitem(s, i, c) ==
    IF ~Live(s) THEN s
    ELSE IF IndexOK(s.M, i)
         THEN [s EXCEPT !.acc = @ \cup {i}, !.M[Pos(s.M, i)] = c]
         ELSE [s EXCEPT !.acc = @ \cup {i}, !.err = TRUE]

\* M[a:a+n] = l
setslice(s, a, n, l) ==
    IF ~Live(s) THEN s
    ELSE [s EXCEPT !.acc = @ \cup (a..(a + n - 1)),
                   !.M = SliceAssign(s.M, a, a + n, l)]

\* d[k] as an expression: [s, v]; KeyError when k is missing
lookup(s, d, k) ==
    IF ~Live(s) THEN [s |-> s, v |-> 0]
    ELSE IF k \in DOMAIN d THEN [s |-> s, v |-> d[k]]
         ELSE [s |-> Raise(s), v |-> 0]

\* M[c] where the subscript is itself a cell value: TypeError unless an int
getitem_cell(s, c) ==
    IF ~Live(s) THEN [s |-> s, v |-> None]
    ELSE IF IsIndex(c) THEN getitem(s, c.v)
         ELSE [s |-> Raise(s), v |-> None]

setitem_cell(s, c, value) ==
    IF ~Live(s) THEN s
    ELSE IF IsIndex(c) THEN setitem(s, c.v, value) ELSE Raise(s)

(***************************************************************************)
(* Auxiliary methods.                                                      *)
(***************************************************************************)
\* mutant of alloc_labels_from: a label is mapped to its own PC
RECURSIVE alloc_labels_at(_, _, _)
alloc_labels_at(code, v, _lpc) ==
    IF ~IndexOK(code, _lpc) THEN v
    ELSE LET _op == code[Pos(code, _lpc)]
         IN  IF StartsWith(_op.op, "define") THEN v
             ELSE IF TupleLen(_op) = 1 /\ Join(_op.op) # "return_void"
                  THEN alloc_labels_at(code,
                         Put(v, R(Join(ChopLast(_op.op))), _lpc), _lpc + 1)
                  ELSE alloc_labels_at(code, v, _lpc + 1)

RECURSIVE alloc_labels_from(_, _, _)
alloc_labels_from(code, v, _lpc) ==
    IF ~IndexOK(code, _lpc) THEN v
    ELSE LET _op == code[Pos(code, _lpc)]
         IN  IF StartsWith(_op.op, "define") THEN v
             ELSE IF TupleLen(_op) = 1 /\ Join(_op.op) # "return_void"
                  THEN alloc_labels_from(code,
                         Put(v, R(Join(ChopLast(_op.op))), _lpc + 1), _lpc + 1)
                  ELSE alloc_labels_from(code, v, _lpc + 1)

_alloc_labels(s) ==
    IF ~Live(s) THEN s
    ELSE [s EXCEPT !.vars = alloc_labels_from(Code, s.vars, s.pc)]

_alloc_reg(s, target) ==
    IF ~Live(s) \/ target \in DOMAIN s.vars THEN s
    ELSE [s EXCEPT !.vars = Put(s.vars, target, s.offset), !.offset = @ + 1]

_get_address(s, source) ==
    IF IsGlobalName(source) THEN lookup(s, s.globals, source)
    ELSE lookup(s, s.vars, source)

_get_value(s, source) ==
    LET r == _get_address(s, source) IN getitem(r.s, r.v)

_store_value(s, target, value) ==
    LET r == _get_address(s, target) IN setitem(r.s, r.v, value)

\* mutant of _store_deref: the value is written to the pointer's own cell
_store_deref_direct(s, target, value) ==
    LET r == _get_address(s, target) IN setitem(r.s, r.v, value)

_store_deref(s, target, value) ==
    LET r == _get_value(s, target) IN setitem_cell(r.s, r.v, value)

_store_multiple_values(s, dim, target, value) ==
    LET l == _get_address(s, target)
        r == _get_address(l.s, value)
    IN  IF ~Live(r.s) THEN r.s
        ELSE setslice([r.s EXCEPT !.acc = @ \cup (r.v..(r.v + dim - 1))],
                      l.v, dim, Slice(r.s.M, r.v, r.v + dim))

_load_multiple_values(s, size, varname, target) ==
    IF ~Live(s) THEN s
    ELSE _store_multiple_values(
             [s EXCEPT !.vars = Put(s.vars, target, s.offset),
                       !.offset = @ + size],
             size, target, varname)

At(d, k) == IF k \in DOMAIN d THEN d[k] ELSE 0

\* mutant of push_params: a parameter name is bound to the caller's cell
RECURSIVE push_params_by_reference(_, _, _)
push_params_by_reference(s, locs, idx) ==
    IF ~Live(s) \/ idx > Len(s.params) THEN s
    ELSE IF idx > Len(locs) THEN Raise(s)
    ELSE push_params_by_reference(
             [s EXCEPT !.vars = Put(s.vars, locs[idx][2], s.params[idx])],
             locs, idx + 1)

\* mutant of push_params: the last pending value goes to the first name
RECURSIVE push_params_reversed(_, _, _)
push_params_reversed(s, locs, idx) ==
    IF ~Live(s) \/ idx > Len(s.params) THEN s
    ELSE IF idx > Len(locs) THEN Raise(s)
    ELSE LET s1 == [s EXCEPT !.vars = Put(s.vars, locs[idx][2], s.offset)]
             r == getitem(s1, s1.params[Len(s1.params) - idx + 1])
             s2 == setitem(r.s, s1.offset, r.v)
         IN  push_params_reversed(
                 IF Live(s2) THEN [s2 EXCEPT !.offset = @ + 1] ELSE s2,
                 locs, idx + 1)

RECURSIVE push_params(_, _, _)
push_params(s, locs, idx) ==
    IF ~Live(s) \/ idx > Len(s.params) THEN s
    ELSE IF idx > Len(locs) THEN Raise(s)
    ELSE LET s1 == [s EXCEPT !.vars = Put(s.vars, locs[idx][2], s.offset)]
             r == getitem(s1, s1.params[idx])
             s2 == setitem(r.s, s1.offset, r.v)
         IN  push_params(IF Live(s2) THEN [s2 EXCEPT !.offset = @ + 1] ELSE s2,
                         locs, idx + 1)

\* mutant of _push: the table of the caller is not replaced by an empty one
_push_keeps_table(s, locs, no_return) ==
    LET s1 == [s EXCEPT !.stack = Append(s.stack, s.vars),
                        !.sp = Append(s.sp, s.offset)]
        s2 == IF no_return
              THEN LET s3 == _alloc_reg(s1, R("0"))
                   IN  setitem(s3, At(s3.vars, R("0")), None)
              ELSE s1
        s4 == push_params(s2, locs, 1)
    IN  _alloc_labels(IF Live(s4) THEN [s4 EXCEPT !.params = <<>>] ELSE s4)

_push(s, locs, no_return) ==
    LET s1 == [s EXCEPT !.stack = Append(s.stack, s.vars),
                        !.sp = Append(s.sp, s.offset),
                        !.vars = EmptyDict]
        s2 == IF no_return
              THEN LET s3 == _alloc_reg(s1, R("0"))
                   IN  setitem(s3, At(s3.vars, R("0")), None)
              ELSE s1
        s4 == push_params(s2, locs, 1)
    IN  _alloc_labels(IF Live(s4) THEN [s4 EXCEPT !.params = <<>>] ELSE s4)

\* mutant of pop_value: the offset itself is delivered, not the cell it names
pop_value_address(s, target) == [s |-> s, v |-> target]

\* the value a return delivers: M[target] if target is truthy, else None
pop_value(s, target) ==
    IF Truthy(target) THEN getitem_cell(s, target) ELSE [s |-> s, v |-> None]

\* mutant of exit_status: every return from main exits with 0
exit_status_zero(arg) == 0

\* sys.exit(arg): the exit status of None is 0, of an int the int
exit_status(arg) == IF arg.t = "none" THEN 0 ELSE arg.v

\* mutant of pop_frame: the saved offset is popped but not restored
pop_frame_keeps_offset(s, _value) ==
    IF ~Live(s) THEN s
    ELSE IF s.stack = <<>> \/ s.registers = <<>> THEN Raise(s)
    ELSE LET s1 == [s EXCEPT !.vars = s.stack[Len(s.stack)],
                             !.stack = SubSeq(@, 1, Len(@) - 1),
                             !.registers = SubSeq(@, 1, Len(@) - 1)]
             a == lookup(s1, s1.vars, s.registers[Len(s.registers)])
             s2 == setitem(a.s, a.v, _value)
         IN  IF ~Live(s2) THEN s2
             ELSE [s2 EXCEPT !.sp = SubSeq(@, 1, Len(@) - 1),
                             !.pc = s.returns[Len(s.returns)],
                             !.returns = SubSeq(@, 1, Len(@) - 1)]

\* _pop, lines 355-362: back to the caller; _value is delivered in the
\* register named on top of self.registers
pop_frame(s, _value) ==
    IF ~Live(s) THEN s
    ELSE IF s.stack = <<>> \/ s.registers = <<>> THEN Raise(s)
    ELSE LET s1 == [s EXCEPT !.vars = s.stack[Len(s.stack)],
                             !.stack = SubSeq(@, 1, Len(@) - 1),
                             !.registers = SubSeq(@, 1, Len(@) - 1)]
             a == lookup(s1, s1.vars, s.registers[Len(s.registers)])
             s2 == setitem(a.s, a.v, _value)
         IN  IF ~Live(s2) THEN s2
             ELSE [s2 EXCEPT !.offset = s.sp[Len(s.sp)],
                             !.sp = SubSeq(@, 1, Len(@) - 1),
                             !.pc = s.returns[Len(s.returns)],
                             !.returns = SubSeq(@, 1, Len(@) - 1)]

_pop(s, target) ==
    IF ~Live(s) THEN s
    ELSE IF s.returns # <<>>
    THEN LET r == pop_value(s, target) IN pop_frame(r.s, r.v)
    ELSE IF target.t = "none"
         THEN [s EXCEPT !.exited = TRUE, !.exitcode = 0]
         ELSE LET r == getitem_cell(s, target)
              IN  IF ~Live(r.s) THEN r.s
                  ELSE [r.s EXCEPT !.exited = TRUE,
                                   !.exitcode = exit_status(r.v)]

(***************************************************************************)
(* Handlers.  a is the operand tail op[1:], kw the shape keywords.         *)
(***************************************************************************)
run_alloc_int(s, a) ==
    LET s1 == _alloc_reg(s, a[1])
    IN  setitem(s1, At(s1.vars, a[1]), IntV(0))

run_alloc_int_(s, a, kw) ==
    LET _dim == DimProduct(kw)
        s1 == [s EXCEPT !.vars = Put(s.vars, a[1], s.offset)]
        s2 == setslice(s1, s1.offset, _dim, Zeros(_dim))
    IN  [s2 EXCEPT !.offset = @ + _dim]

run_call(s, a) ==
    LET s1 == _alloc_reg(s, a[2])
        s2 == [s1 EXCEPT !.registers = Append(@, a[2]),
                         !.returns = Append(@, s1.pc)]
        r == _get_value(s2, a[1])
    IN  IF ~Live(r.s) THEN r.s
        ELSE IF ~IsIndex(r.v) THEN Raise(r.s)
        ELSE [r.s EXCEPT !.pc = r.v.v]

\* mutant of run_cbranch: the test cell is not consulted
run_cbranch_taken(s, a) ==
    LET c == lookup(s, s.vars, a[1])
        v == getitem(c.s, c.v)
        t == lookup(v.s, s.vars, a[2])
    IN  IF Live(t.s) THEN [t.s EXCEPT !.pc = t.v] ELSE t.s

run_cbranch(s, a) ==
    LET c == lookup(s, s.vars, a[1])
        v == getitem(c.s, c.v)
        t == lookup(v.s, s.vars, IF Truthy(v.v) THEN a[2] ELSE a[3])
    IN  IF Live(t.s) THEN [t.s EXCEPT !.pc = t.v] ELSE t.s

run_define_int(s, a) ==
    IF a[1] = G("main") THEN _alloc_labels(_alloc_reg(s, R("0")))
    ELSE _push(s, a[2], FALSE)

run_define_void(s, a) ==
    IF a[1] = G("main") THEN _alloc_labels(_alloc_reg(s, R("0")))
    ELSE _push(s, a[2], TRUE)

\* mutant of run_elem_int: the index is not added to the base address
run_elem_int_base(s, a) ==
    LET s1 == _alloc_reg(s, a[3])
        _aux == _get_address(s1, a[1])
    IN  _store_value(_aux.s, a[3], IntV(_aux.v))

run_elem_int(s, a) ==
    LET s1 == _alloc_reg(s, a[3])
        _aux == _get_address(s1, a[1])
        _idx == _get_value(_aux.s, a[2])
    IN  IF ~Live(_idx.s) THEN _idx.s
        ELSE IF ~IsIndex(_idx.v) THEN Raise(_idx.s)
        ELSE _store_value(_idx.s, a[3], IntV(_aux.v + _idx.v.v))

run_get_int(s, a) == s

run_get_int_(s, a, kw) ==
    LET r == _get_address(s, a[1])
    IN  _store_value(r.s, a[2], IntV(r.v))

run_jump(s, a) ==
    LET t == lookup(s, s.vars, a[1])
    IN  IF Live(t.s) THEN [t.s EXCEPT !.pc = t.v] ELSE t.s

run_literal_int(s, a) ==
    LET s1 == _alloc_reg(s, a[2])
    IN  setitem(s1, At(s1.vars, a[2]), a[1])

run_load_int(s, a) ==
    LET s1 == _alloc_reg(s, a[2])
        r == _get_value(s1, a[1])
    IN  setitem(r.s, At(s1.vars, a[2]), r.v)

run_load_int_(s, a, kw) ==
    LET _ref == RefCount(kw)
        _dim == DimProduct(kw)
    IN  IF _ref = 0 THEN _load_multiple_values(s, _dim, a[1], a[2])
        ELSE IF _dim = 1 /\ _ref = 1
        THEN LET s1 == _alloc_reg(s, a[2])
                 p == _get_value(s1, a[1])
                 r == getitem_cell(p.s, p.v)
             IN  setitem(r.s, At(s1.vars, a[2]), r.v)
        ELSE s

run_param_int(s, a) ==
    LET r == lookup(s, s.vars, a[1])
    IN  IF Live(r.s) THEN [r.s EXCEPT !.params = Append(@, r.v)] ELSE r.s

\* what the debugger prints
NewLine == [t |-> "nl", v |-> 0]

BannerMessage == [t |-> "banner", v |-> 0]

HelpMessage == [t |-> "help", v |-> 0]

PromptMessage == [t |-> "prompt", v |-> 0]

ExamineMessage == [t |-> "ex", v |-> 0]

ExceptMessage == [t |-> "except", v |-> 0]

UnrecognizedMessage == [t |-> "nocmd", v |-> 0]

run_print_int(s, a) ==
    LET r == _get_value(s, a[1])
    IN  IF Live(r.s) THEN [r.s EXCEPT !.out = Append(@, r.v)] ELSE r.s

run_print_void(s, a) == [s EXCEPT !.out = Append(@, NewLine)]

run_return_int(s, a) ==
    LET r == lookup(s, s.vars, a[1])
    IN  _pop(r.s, IntV(r.v))

run_return_void(s, a) ==
    LET r == lookup(s, s.vars, R("0"))
        v == getitem(r.s, r.v)
    IN  _pop(v.s, v.v)

run_store_int(s, a) ==
    LET r == _get_value(s, a[1])
    IN  _store_value(r.s, a[2], r.v)

run_store_int_(s, a, kw) ==
    LET _ref == RefCount(kw)
        _dim == DimProduct(kw)
    IN  IF _ref = 0 THEN _store_multiple_values(s, _dim, a[2], a[1])
        ELSE IF _dim = 1 /\ _ref = 1
        THEN LET r == _get_value(s, a[1])
             IN  _store_deref(r.s, a[2], r.v)
        ELSE s

\* print("Unexpected end of input file.") and print("Illegal input value.")
EndOfInputMessage == [t |-> "eof", v |-> 0]

IllegalInputMessage == [t |-> "illegal", v |-> 0]

\* the loop of _get_input; at end of file readline returns '', the message
\* is printed, inputline becomes [] and the loop goes round again
RECURSIVE _get_input(_)
_get_input(s) ==
    IF ~Live(s) \/ Len(s.inputline) > 0 THEN s
    ELSE IF s.stdin = <<>>
         THEN [s EXCEPT !.out = Append(@, EndOfInputMessage), !.hang = TRUE]
         ELSE LET l == ReadLine(s.stdin)
              IN  _get_input([s EXCEPT
                      !.stdin = l.rest,
                      !.inputline = SplitWords(ChopLast(l.line), <<>>, <<>>)])

\* the body shared by _read_int and _read_float: [s, v]; the outer except
\* prints the message, and return v2 then finds v2 unbound
ReadNumber(s, type) ==
    LET g == _get_input(s)
        Parse(text) == IF type = "int" THEN ParseInt(text) ELSE ParseFloat(text)
    IN  IF ~Live(g) THEN [s |-> g, v |-> None]
        ELSE IF g.inputline = <<>>
        THEN [s |-> Raise([g EXCEPT !.out = Append(@, IllegalInputMessage)]),
              v |-> None]
        ELSE LET v1 == g.inputline[1]
                 v2 == IF Parse(v1).ok THEN Parse(v1).v ELSE StrV(v1)
             IN  [s |-> [g EXCEPT !.inputline = Tail(@)], v |-> v2]

_read_int(s) == ReadNumber(s, "int")

_read_float(s) == ReadNumber(s, "float")

\* the token run_read_char and run_read_char_ take: [s, v]
ReadToken(s) ==
    LET g == _get_input(s)
    IN  IF ~Live(g) THEN [s |-> g, v |-> None]
        ELSE IF g.inputline = <<>> THEN [s |-> Raise(g), v |-> None]
        ELSE [s |-> [g EXCEPT !.inputline = Tail(@)], v |-> StrV(g.inputline[1])]

run_read_int(s, a) ==
    LET r == _read_int(s) IN _store_value(r.s, a[1], r.v)

run_read_int_(s, a, kw) ==
    LET r == _read_int(s) IN _store_deref(r.s, a[1], r.v)

run_read_float(s, a) ==
    LET r == _read_float(s) IN _store_value(r.s, a[1], r.v)

run_read_float_(s, a, kw) ==
    LET r == _read_float(s) IN _store_deref(r.s, a[1], r.v)

run_read_char(s, a) ==
    LET r == ReadToken(s) IN _store_value(r.s, a[1], r.v)

run_read_char_(s, a, kw) ==
    LET r == ReadToken(s) IN _store_deref(r.s, a[1], r.v)

\* Python == on two cells (None equals only None; True == 1)
PyEq(x, y) == ((x.t = "none") = (y.t = "none")) /\ x.v = y.v

\* Python arithmetic, comparison and and/or on two cells: [ok, v]; ok is
\* FALSE where Python raises (None operand, division by zero)
BinOp(m, x, y) ==
    LET num == IsIndex(x) /\ IsIndex(y)
        val(n) == [ok |-> num, v |-> IntV(n)]
        rel(b) == [ok |-> num, v |-> BoolV(b)]
    IN  CASE m \in {"run_add_int", "run_add_float"} -> val(x.v + y.v)
          [] m \in {"run_sub_int", "run_sub_float"} -> val(x.v - y.v)
          [] m \in {"run_mul_int", "run_mul_float"} -> val(x.v * y.v)
          [] m = "run_div_int" ->
                IF num /\ y.v # 0 THEN val(x.v \div y.v)
                ELSE [ok |-> FALSE, v |-> None]
          [] m = "run_mod_int" ->
                IF num /\ y.v # 0 THEN val(x.v % y.v)
                ELSE [ok |-> FALSE, v |-> None]
          [] m \in {"run_lt_int", "run_lt_float", "run_lt_char"} -> rel(x.v < y.v)
          [] m \in {"run_le_int", "run_le_float", "run_le_char"} -> rel(x.v <= y.v)
          [] m \in {"run_gt_int", "run_gt_float", "run_gt_char"} -> rel(x.v > y.v)
          [] m \in {"run_ge_int", "run_ge_float", "run_ge_char"} -> rel(x.v >= y.v)
          [] m \in {"run_eq_int", "run_eq_float", "run_eq_char", "run_eq_bool"} ->
                [ok |-> TRUE, v |-> BoolV(PyEq(x, y))]
          [] m \in {"run_ne_int", "run_ne_float", "run_ne_char", "run_ne_bool"} ->
                [ok |-> TRUE, v |-> BoolV(~PyEq(x, y))]
          [] m = "run_and_bool" -> [ok |-> TRUE, v |-> IF Truthy(x) THEN y ELSE x]
          [] m = "run_or_bool" -> [ok |-> TRUE, v |-> IF Truthy(x) THEN x ELSE y]

\* run_add_int ... run_or_bool: target = left <op> right
run_binary(s, a, m) ==
    LET s1 == _alloc_reg(s, a[3])
        la == lookup(s1, s1.vars, a[1])
        l == getitem(la.s, la.v)
        ra == lookup(l.s, s1.vars, a[2])
        r == getitem(ra.s, ra.v)
        res == BinOp(m, l.v, r.v)
    IN  IF ~Live(r.s) THEN r.s
        ELSE IF ~res.ok THEN Raise(r.s)
        ELSE setitem(r.s, At(s1.vars, a[3]), res.v)

run_not_bool(s, a) ==
    LET s1 == _alloc_reg(s, a[2])
        r == _get_value(s1, a[1])
    IN  setitem(r.s, At(s1.vars, a[2]), BoolV(~Truthy(r.v)))

(***************************************************************************)
(* The attributes run_* of class Interpreter, grouped by the function      *)
(* they are bound to.                                                      *)
(***************************************************************************)
F_alloc_int == {"run_alloc_int", "run_alloc_float", "run_alloc_char"}

F_alloc_int_ == {"run_alloc_int_", "run_alloc_float_", "run_alloc_char_"}

F_call == {"run_call"}

F_cbranch == {"run_cbranch"}

F_define_int == {"run_define_int", "run_define_float", "run_define_char"}

F_define_void == {"run_define_void"}

F_elem_int == {"run_elem_int", "run_elem_float", "run_elem_char"}

F_get_int == {"run_get_int"}

F_get_int_ == {"run_get_int_", "run_get_float_", "run_get_char_"}

F_jump == {"run_jump"}

F_literal_int == {"run_literal_int", "run_literal_float"}

F_load_int == {"run_load_int", "run_load_float", "run_load_char", "run_load_bool"}

F_load_int_ == {"run_load_int_", "run_load_float_", "run_load_char_"}

F_param_int == {"run_param_int", "run_param_float", "run_param_char"}

F_print_int == {"run_print_int", "run_print_float", "run_print_char", "run_print_bool"}

F_print_void == {"run_print_void"}

F_return_int == {"run_return_int", "run_return_float", "run_return_char"}

F_return_void == {"run_return_void"}

F_store_int == {"run_store_int", "run_store_float", "run_store_char", "run_store_bool"}

F_store_int_ == {"run_store_int_", "run_store_float_", "run_store_char_"}

F_binary ==
    {"run_add_int", "run_sub_int", "run_mul_int", "run_mod_int", "run_div_int",
     "run_add_float", "run_sub_float", "run_mul_float",
     "run_lt_int", "run_le_int", "run_gt_int", "run_ge_int", "run_eq_int", "run_ne_int",
     "run_lt_float", "run_le_float", "run_gt_float", "run_ge_float", "run_eq_float",
     "run_ne_float", "run_lt_char", "run_le_char", "run_gt_char", "run_ge_char",
     "run_eq_char", "run_ne_char", "run_eq_bool", "run_ne_bool",
     "run_and_bool", "run_or_bool"}

F_not_bool == {"run_not_bool"}

F_read_int == {"run_read_int"}

F_read_int_ == {"run_read_int_"}

F_read_float == {"run_read_float"}

F_read_float_ == {"run_read_float_"}

F_read_char == {"run_read_char"}

F_read_char_ == {"run_read_char_"}

\* handlers that exist in the class but whose operands (character
\* sequences, float arithmetic) are outside the cells of this model
F_other ==
    {"run_literal_char", "run_print_string", "run_div_float", "run_sitofp",
     "run_fptosi"}

Methods ==
    F_alloc_int \cup F_alloc_int_ \cup F_call \cup F_cbranch \cup F_define_int
    \cup F_define_void \cup F_elem_int \cup F_get_int \cup F_get_int_ \cup F_jump
    \cup F_literal_int \cup F_load_int \cup F_load_int_ \cup F_param_int
    \cup F_print_int \cup F_print_void \cup F_return_int \cup F_return_void
    \cup F_store_int \cup F_store_int_ \cup F_binary \cup F_not_bool
    \cup F_read_int \cup F_read_int_ \cup F_read_float \cup F_read_float_
    \cup F_read_char \cup F_read_char_ \cup F_other

(***************************************************************************)
(* Dispatch of one instruction (main loop of run).                         *)
(*   label    : one-element tuple other than return_void / print_void      *)
(*   noseg    : _extract_operation raises IndexError                       *)
(*   warn     : no attribute run_<opcode>: warning, continue               *)
(*   scalar   : empty shape: run_<opcode> is called                        *)
(*   shaped   : non-empty shape: run_<opcode>_ is called                   *)
(*   nomethod : non-empty shape, run_<opcode>_ missing: AttributeError     *)
(***************************************************************************)
Dispatch(ins) ==
    IF ~(TupleLen(ins) > 1 \/ Join(ins.op) = "return_void"
                           \/ Join(ins.op) = "print_void")
    THEN [kind |-> "label", method |-> "", modifier |-> <<>>]
    ELSE LET d == _extract_operation(ins.op)
         IN  IF ~d.ok THEN [kind |-> "noseg", method |-> "", modifier |-> <<>>]
             ELSE IF ("run_" \o d.opcode) \in Methods
             THEN IF d.modifier = <<>>
                  THEN [kind |-> "scalar", method |-> "run_" \o d.opcode,
                        modifier |-> d.modifier]
                  ELSE IF ("run_" \o d.opcode \o "_") \in Methods
                  THEN [kind |-> "shaped", method |-> "run_" \o d.opcode \o "_",
                        modifier |-> d.modifier]
                  ELSE [kind |-> "nomethod", method |-> "run_" \o d.opcode \o "_",
                        modifier |-> d.modifier]
             ELSE [kind |-> "warn", method |-> "run_" \o d.opcode,
                   modifier |-> d.modifier]

CurIns == Code[Pos(Code, pc)]

Sel == Dispatch(CurIns)

\* the state the handler starts from: pc already advanced
Fetched == [Cur EXCEPT !.pc = pc + 1]

\* the top of the main loop, before its debugger block
AtLoopTop == phase = "run" /\ nest = 0 /\ ~ready

\* _breakpoint == 0
QuitPending == _breakpoint # None /\ _breakpoint.v = 0

\* the conditions under which the block calls self._idb(self.pc)
PromptDue == IF _breakpoint # None THEN pc = _breakpoint.v ELSE debug

\* control is past the debugger block, at op = ircode[self.pc]
PassDebugger == nest = 0 /\ (ready \/ (~QuitPending /\ ~PromptDue))

Fetch == phase = "run" /\ PassDebugger /\ IndexOK(Code, pc)

Invokes(F) == Fetch /\ Sel.kind \in {"scalar", "shaped"} /\ Sel.method \in F

NoFrame ==
    [callat |-> 0 - 1, target |-> R(""), vars |-> EmptyDict, offset |-> 0,
     entered |-> FALSE, M |-> <<>>]

NoRet == [has |-> FALSE, frame |-> NoFrame, value |-> None]

\* the step that is being taken, as recorded in last: the index of the
\* instruction, what the dispatch did with it, the state before it
ThisStep(ret) ==
    [at |-> pc, kind |-> Sel.kind, method |-> Sel.method, pre |-> Cur, ret |-> ret]

NoStep ==
    [at |-> 0 - 1, kind |-> "", method |-> "",
     pre |-> [M |-> <<>>, vars |-> EmptyDict], ret |-> NoRet]

Commit(s) ==
    /\ M' = s.M
    /\ globals' = s.globals
    /\ vars' = s.vars
    /\ offset' = s.offset
    /\ stack' = s.stack
    /\ sp' = s.sp
    /\ params' = s.params
    /\ registers' = s.registers
    /\ returns' = s.returns
    /\ pc' = s.pc
    /\ start' = s.start
    /\ exitcode' = s.exitcode
    /\ out' = s.out
    /\ warnings' = s.warnings
    /\ inputline' = s.inputline
    /\ stdin' = s.stdin
    /\ acc' = s.acc
    /\ phase' = IF s.err THEN "fatal" ELSE IF s.exited THEN "exit"
                ELSE IF s.hang THEN "reading" ELSE phase
    /\ ready' = FALSE
    /\ UNCHANGED <<prog, lastpc, debug, _breakpoint, nest, commands>>
    /\ UNCHANGED <<evars, cvars>>

\* a handler that is neither a call, a define nor a return
Plain(s) ==
    /\ Commit(s)
    /\ last' = ThisStep(NoRet)
    /\ prev' = last
    /\ UNCHANGED frames

(***************************************************************************)
(* Loader: first loop of run.                                              *)
(***************************************************************************)
RECURSIVE Flatten(_)
Flatten(ll) == IF ll = <<>> THEN <<>> ELSE Head(ll) \o Flatten(Tail(ll))

\* an initializer is [kind, items]: "str" (items: its characters), "nested"
\* (a list with list items) or "list"
_copy_data(s, address, size, value) ==
    LET _value == IF value.kind = "nested" THEN Flatten(value.items)
                  ELSE value.items
    IN  setslice(s, address, size, _value)

load_step(s) ==
    LET op == Code[Pos(Code, s.pc)]
        d == _extract_operation(op.op)
        s1 == IF TupleLen(op) > 1
              THEN IF ~d.ok THEN Raise(s)
                   ELSE IF StartsWith(Split(op.op), "global")
                   THEN LET g == [s EXCEPT !.globals = Put(@, op.a[1], s.offset)]
                        IN  IF d.modifier = <<>>
                            THEN LET w == IF TupleLen(op) = 3
                                          THEN setitem(g, g.offset, op.a[2])
                                          ELSE g
                                 IN  IF Live(w) THEN [w EXCEPT !.offset = @ + 1]
                                     ELSE w
                            ELSE LET _len == DimProduct(d.modifier)
                                     w == IF TupleLen(op) = 3
                                          THEN _copy_data(g, g.offset, _len, op.a[2])
                                          ELSE g
                                 IN  [w EXCEPT !.offset = @ + _len]
                   ELSE IF StartsWith(Split(op.op), "define")
                   THEN LET g == [s EXCEPT !.globals = Put(@, op.a[1], s.offset)]
                            w == setitem(g, g.offset, IntV(s.pc))
                        IN  IF ~Live(w) THEN w
                            ELSE [w EXCEPT !.offset = @ + 1,
                                           !.start = IF op.a[1] = G("main")
                                                     THEN s.pc ELSE @]
                   ELSE s
              ELSE s
    IN  IF Live(s1) THEN [s1 EXCEPT !.pc = @ + 1] ELSE s1

LoadStep ==
    /\ phase = "load"
    /\ IndexOK(Code, pc)
    /\ Commit(load_step(Cur))
    /\ UNCHANGED <<frames, last, prev>>

\* the loader's IndexError: the loop is left, execution starts at self.start
LoadDone ==
    /\ phase = "load"
    /\ ~IndexOK(Code, pc)
    /\ out' = IF debug THEN out \o <<BannerMessage, HelpMessage>> ELSE out
    /\ lastpc' = pc - 1
    /\ pc' = start
    /\ phase' = "run"
    /\ UNCHANGED <<prog, M, globals, vars, offset, stack, sp, params, registers,
                   returns, start, exitcode, warnings, inputline, stdin, acc,
                   frames, last, prev>>
    /\ UNCHANGED dvars
    /\ UNCHANGED <<evars, cvars>>

(***************************************************************************)
(* Main loop: one action per outcome of the dispatch.                      *)
(***************************************************************************)
\* ircode[self.pc] raises IndexError: run returns
EndOfCode ==
    /\ phase = "run"
    /\ PassDebugger
    /\ ~IndexOK(Code, pc)
    /\ phase' = "end"
    /\ UNCHANGED <<prog, M, globals, vars, offset, stack, sp, params, registers,
                   returns, pc, start, lastpc, exitcode, out, warnings, inputline,
                   stdin, acc, frames, last, prev>>
    /\ UNCHANGED dvars
    /\ UNCHANGED <<evars, cvars>>

(***************************************************************************)
(* The debugger block of the main loop, _idb and _parse_input.  The lines  *)
(* the user types at the "idb> " prompt are chosen freely, one action per   *)
(* command; programs that are debugged read no input of their own.         *)
(***************************************************************************)
\* a step in which only the output and the state of the debugger change
DebuggerStep(o, d, b, n, r, entered) ==
    /\ out' = o
    /\ debug' = d
    /\ _breakpoint' = b
    /\ nest' = n
    /\ ready' = r
    /\ commands' = commands \o entered
    /\ UNCHANGED <<prog, phase, M, globals, vars, offset, stack, sp, params,
                   registers, returns, pc, start, lastpc, exitcode, warnings,
                   inputline, stdin, acc, frames, last, prev>>
    /\ UNCHANGED <<evars, cvars>>

\* if _breakpoint == 0: sys.exit(0)
QuitAtLoopTop ==
    /\ AtLoopTop
    /\ QuitPending
    /\ phase' = "exit"
    /\ exitcode' = 0
    /\ UNCHANGED <<prog, M, globals, vars, offset, stack, sp, params, registers,
                   returns, pc, start, lastpc, out, warnings, inputline, stdin,
                   acc, frames, last, prev>>
    /\ UNCHANGED dvars
    /\ UNCHANGED <<evars, cvars>>

\* the lines _idb(pos) prints: range(max(pos - 2, 1), min(pos + 3, lastpc)),
\* the line of pos marked, then an empty line
Listing(pos) ==
    LET _init == IF pos - 2 < 1 THEN 1 ELSE pos - 2
        _end == IF pos + 3 >= lastpc THEN lastpc ELSE pos + 3
    IN  [n \in 1..Max(0, _end - _init) |->
            [t |-> IF _init + n - 1 = pos THEN "cur" ELSE "line",
             v |-> _init + n - 1]]
        \o <<NewLine>>

\* the block calls self._idb(self.pc), which prints and waits for a line
EnterDebugger ==
    /\ AtLoopTop
    /\ ~QuitPending
    /\ PromptDue
    /\ DebuggerStep(out \o Listing(pc) \o <<PromptMessage>>, debug, _breakpoint,
                    1, FALSE, <<>>)

\* a line can be entered
AtPrompt == phase = "run" /\ nest > 0 /\ Len(commands) < MaxCommands

Entered(op, n) == <<[op |-> op, n |-> n, depth |-> nest]>>

\* the innermost _parse_input returns value: to the debugger block, which
\* assigns it to _breakpoint, or to the view branch of the _parse_input
\* that called _idb, which drops it and goes round its loop
Leave(d, value, entered) ==
    IF nest = 1
    THEN DebuggerStep(out, d, value, 0, TRUE, entered)
    ELSE DebuggerStep(Append(out, PromptMessage), d, _breakpoint, nest - 1,
                      FALSE, entered)

\* a branch that prints and goes round the loop of _parse_input
Stay(printed, entered) ==
    DebuggerStep(out \o printed \o <<PromptMessage>>, debug, _breakpoint, nest,
                 FALSE, entered)

Cmd_step == AtPrompt /\ Leave(debug, None, Entered("step", 0))

\* the targets go is entered with: the first instruction, one of the
\* caller before its call and one after it
GoTargets == {0, 4, 7}

\* ex, list, help and unknown commands are entered as the first line only
AtFirstPrompt == AtPrompt /\ commands = <<>>

Cmd_go == AtPrompt /\ \E n \in GoTargets : Leave(debug, IntV(n), Entered("go", n))

Cmd_run == AtPrompt /\ Leave(FALSE, None, Entered("run", 0))

Cmd_quit == AtPrompt /\ Leave(debug, IntV(0), Entered("quit", 0))

\* the names ex is entered with (one name a line); a name that is not in
\* the dictionary raises KeyError, which the bare except reports
ExNames == <<R("1"), G("sq"), R("none")>>

ExPrinted(n) ==
    IF n \in DOMAIN (IF IsGlobalName(n) THEN globals ELSE vars)
    THEN <<ExamineMessage, M[Pos(M, IF IsGlobalName(n) THEN globals[n] ELSE vars[n])]>>
    ELSE <<ExceptMessage>>

Cmd_ex ==
    AtFirstPrompt /\ \E i \in 1..Len(ExNames) :
        Stay(ExPrinted(ExNames[i]), Entered("ex", i))

\* the arguments list is entered with: none, the whole program, and a
\* range that ends past the program
ListArgs == << <<>>, <<0, Len(Code)>>, <<2, Len(Code) + 1>> >>

\* what list prints: the lines of range(_start, _end), which is
\* range(1, self.lastpc) without arguments; self.code[i] past the end
\* raises IndexError, which the bare except reports
ListPrinted(args) ==
    LET _start == IF Len(args) = 2 THEN args[1] ELSE 1
        _end == IF Len(args) = 2 THEN args[2] ELSE lastpc
        stop == Min(_end, Len(Code))
    IN  [i \in 1..Max(0, stop - _start) |-> [t |-> "line", v |-> _start + i - 1]]
        \o (IF _end > Len(Code) /\ _end > _start THEN <<ExceptMessage>> ELSE <<>>)

Cmd_list ==
    AtFirstPrompt /\ \E i \in 1..Len(ListArgs) :
        Stay(ListPrinted(ListArgs[i]), Entered("list", i))

\* view: self._idb(self.pc) prints and waits in a _parse_input of its own
Cmd_view ==
    AtPrompt
    /\ DebuggerStep(out \o Listing(pc) \o <<PromptMessage>>, debug, _breakpoint,
                    nest + 1, FALSE, Entered("view", 0))

Cmd_help == AtFirstPrompt /\ Stay(<<HelpMessage>>, Entered("help", 0))

Cmd_unrecognized == AtFirstPrompt /\ Stay(<<UnrecognizedMessage>>, Entered("other", 0))

SkipLabel == Fetch /\ Sel.kind = "label" /\ Plain(Fetched)

Warn ==
    /\ Fetch
    /\ Sel.kind = "warn"
    /\ Plain([Fetched EXCEPT !.warnings = @ + 1])

\* IndexError in _extract_operation, AttributeError in getattr
DispatchError ==
    /\ Fetch
    /\ Sel.kind \in {"noseg", "nomethod"}
    /\ Plain(Raise(Fetched))

Step_alloc_int == Invokes(F_alloc_int) /\ Plain(run_alloc_int(Fetched, CurIns.a))

Step_alloc_int_ ==
    Invokes(F_alloc_int_) /\ Plain(run_alloc_int_(Fetched, CurIns.a, Sel.modifier))

Step_call ==
    /\ Invokes(F_call)
    /\ LET s == run_call(Fetched, CurIns.a)
       IN  /\ Commit(s)
           /\ frames' = IF Live(s)
                        THEN Append(frames, [NoFrame EXCEPT !.callat = pc,
                                                            !.target = CurIns.a[2],
                                                            !.M = M])
                        ELSE frames
    /\ last' = ThisStep(NoRet)
    /\ prev' = last

Step_cbranch == Invokes(F_cbranch) /\ Plain(run_cbranch(Fetched, CurIns.a))

\* history: the frame of the pending call records the caller's table and
\* offset as they are when the define of a non-main function starts
EnterFrame ==
    IF CurIns.a[1] # G("main") /\ frames # <<>> /\ ~frames[Len(frames)].entered
    THEN [frames EXCEPT ![Len(frames)] =
             [@ EXCEPT !.vars = vars, !.offset = offset, !.entered = TRUE]]
    ELSE frames

Step_define_int ==
    /\ Invokes(F_define_int)
    /\ Commit(run_define_int(Fetched, CurIns.a))
    /\ frames' = EnterFrame
    /\ last' = ThisStep(NoRet)
    /\ prev' = last

Step_define_void ==
    /\ Invokes(F_define_void)
    /\ Commit(run_define_void(Fetched, CurIns.a))
    /\ frames' = EnterFrame
    /\ last' = ThisStep(NoRet)
    /\ prev' = last

Step_elem_int == Invokes(F_elem_int) /\ Plain(run_elem_int(Fetched, CurIns.a))

Step_get_int == Invokes(F_get_int) /\ Plain(run_get_int(Fetched, CurIns.a))

Step_get_int_ ==
    Invokes(F_get_int_) /\ Plain(run_get_int_(Fetched, CurIns.a, Sel.modifier))

Step_jump == Invokes(F_jump) /\ Plain(run_jump(Fetched, CurIns.a))

Step_literal_int == Invokes(F_literal_int) /\ Plain(run_literal_int(Fetched, CurIns.a))

Step_load_int == Invokes(F_load_int) /\ Plain(run_load_int(Fetched, CurIns.a))

Step_load_int_ ==
    Invokes(F_load_int_) /\ Plain(run_load_int_(Fetched, CurIns.a, Sel.modifier))

Step_param_int == Invokes(F_param_int) /\ Plain(run_param_int(Fetched, CurIns.a))

Step_print_int == Invokes(F_print_int) /\ Plain(run_print_int(Fetched, CurIns.a))

Step_print_void == Invokes(F_print_void) /\ Plain(run_print_void(Fetched, CurIns.a))

\* history: a return that goes back to a caller pops the frame of the call;
\* value is what the callee hands back
Returning(s, value) ==
    /\ Commit(s)
    /\ LET back == Live(s) /\ returns # <<>> /\ frames # <<>>
       IN  /\ frames' = IF back THEN SubSeq(frames, 1, Len(frames) - 1) ELSE frames
           /\ last' = ThisStep(
                  [has |-> back,
                   frame |-> IF back THEN frames[Len(frames)] ELSE NoFrame,
                   value |-> value])
    /\ prev' = last

\* the cell of register x in the current table (None if there is none)
CellOf(x) ==
    IF x \in DOMAIN vars /\ IndexOK(M, vars[x]) THEN M[Pos(M, vars[x])] ELSE None

Step_return_int ==
    Invokes(F_return_int)
    /\ Returning(run_return_int(Fetched, CurIns.a), CellOf(CurIns.a[1]))

Step_return_void ==
    Invokes(F_return_void) /\ Returning(run_return_void(Fetched, CurIns.a), None)

Step_store_int == Invokes(F_store_int) /\ Plain(run_store_int(Fetched, CurIns.a))

Step_store_int_ ==
    Invokes(F_store_int_) /\ Plain(run_store_int_(Fetched, CurIns.a, Sel.modifier))

Step_binary == Invokes(F_binary) /\ Plain(run_binary(Fetched, CurIns.a, Sel.method))

Step_read_int == Invokes(F_read_int) /\ Plain(run_read_int(Fetched, CurIns.a))

Step_read_int_ ==
    Invokes(F_read_int_) /\ Plain(run_read_int_(Fetched, CurIns.a, Sel.modifier))

Step_read_float == Invokes(F_read_float) /\ Plain(run_read_float(Fetched, CurIns.a))

Step_read_float_ ==
    Invokes(F_read_float_) /\ Plain(run_read_float_(Fetched, CurIns.a, Sel.modifier))

Step_read_char == Invokes(F_read_char) /\ Plain(run_read_char(Fetched, CurIns.a))

Step_read_char_ ==
    Invokes(F_read_char_) /\ Plain(run_read_char_(Fetched, CurIns.a, Sel.modifier))

\* _get_input at end of file: one more round of its loop
EndOfInputLoop ==
    /\ phase = "reading"
    /\ Len(out) < MaxEofRounds
    /\ out' = Append(out, EndOfInputMessage)
    /\ UNCHANGED <<prog, phase, M, globals, vars, offset, stack, sp, params,
                   registers, returns, pc, start, lastpc, exitcode, warnings,
                   inputline, stdin, acc, frames, last, prev>>
    /\ UNCHANGED dvars
    /\ UNCHANGED <<evars, cvars>>

Step_not_bool == Invokes(F_not_bool) /\ Plain(run_not_bool(Fetched, CurIns.a))

\* the error reporting of src/uc.py when the module has been imported
ErrorsInit ==
    /\ _subscribers = <<>>
    /\ _num_errors = 0
    /\ received = [h \in Handlers |-> <<>>]
    /\ blocks = <<>>
    /\ reported = 0
    /\ expect = [h \in Handlers |-> <<>>]
    /\ calls = 0
    /\ elast = [op |-> "", subs |-> <<>>]

\* run_compiler has not been called
DriverOff ==
    /\ driver = "off"
    /\ files = <<>>
    /\ opt = FALSE
    /\ run_ir = FALSE
    /\ cfg = FALSE
    /\ llvm = FALSE
    /\ cfile = 0
    /\ cstage = "off"
    /\ events = <<>>

Init ==
    /\ ErrorsInit
    /\ DriverOff
    /\ prog \in Inputs
    /\ phase = "load"
    /\ M = [i \in 1..Capacity |-> None]
    /\ globals = EmptyDict
    /\ vars = EmptyDict
    /\ offset = 0
    /\ stack = <<>>
    /\ sp = <<>>
    /\ params = <<>>
    /\ registers = <<>>
    /\ returns = <<>>
    /\ pc = 0
    /\ start = 0
    /\ lastpc = 0
    /\ exitcode = 0 - 1
    /\ out = <<>>
    /\ warnings = 0
    /\ inputline = <<>>
    /\ stdin = StdinOf(prog)
    /\ debug \in DebugOf(prog)
    /\ _breakpoint = None
    /\ nest = 0
    /\ ready = FALSE
    /\ commands = <<>>
    /\ acc = {}
    /\ frames = <<>>
    /\ last = NoStep
    /\ prev = NoStep

Next ==
    \/ LoadStep
    \/ LoadDone
    \/ EndOfCode
    \/ SkipLabel
    \/ Warn
    \/ DispatchError
    \/ Step_alloc_int
    \/ Step_alloc_int_
    \/ Step_call
    \/ Step_cbranch
    \/ Step_define_int
    \/ Step_define_void
    \/ Step_elem_int
    \/ Step_get_int
    \/ Step_get_int_
    \/ Step_jump
    \/ Step_literal_int
    \/ Step_load_int
    \/ Step_load_int_
    \/ Step_param_int
    \/ Step_print_int
    \/ Step_print_void
    \/ Step_return_int
    \/ Step_return_void
    \/ Step_store_int
    \/ Step_store_int_
    \/ Step_binary
    \/ Step_not_bool
    \/ Step_read_int
    \/ Step_read_int_
    \/ Step_read_float
    \/ Step_read_float_
    \/ Step_read_char
    \/ Step_read_char_
    \/ EndOfInputLoop
    \/ QuitAtLoopTop
    \/ EnterDebugger
    \/ Cmd_step
    \/ Cmd_go
    \/ Cmd_run
    \/ Cmd_quit
    \/ Cmd_ex
    \/ Cmd_list
    \/ Cmd_view
    \/ Cmd_help
    \/ Cmd_unrecognized

Spec == Init /\ [][Next]_allvars

(***************************************************************************)
(* Runs of the programs that read their input (ProgRead), for progress     *)
(* properties of the read instructions.                                    *)
(***************************************************************************)
InitRead == Init /\ prog.id = 13

NextRead ==
    \/ LoadStep
    \/ LoadDone
    \/ Step_define_int
    \/ Step_alloc_int
    \/ Step_get_int_
    \/ Step_read_int
    \/ Step_read_int_
    \/ Step_read_float
    \/ Step_read_float_
    \/ Step_read_char
    \/ Step_read_char_
    \/ Step_print_int
    \/ Step_print_void
    \/ Step_literal_int
    \/ Step_return_int
    \/ EndOfInputLoop

\* the engine is a sequential program that is not suspended inside
\* _get_input: as long as a round of its loop is possible, one is taken
SpecRead == InitRead /\ [][NextRead]_allvars /\ WF_allvars(EndOfInputLoop)

(***************************************************************************)
(* Error reporting of the driver: error, errors_reported, clear_errors and *)
(* the context manager subscribe_errors of src/uc.py.  A handler is a      *)
(* callable that records its argument (errs.append in the module's         *)
(* docstring).  The with-blocks of the caller nest, so the block that      *)
(* ends is always the innermost one.                                       *)
(***************************************************************************)
\* str(lineno)
StrOfInt(n) == IF n = 7 THEN "7" ELSE "0"

\* the errmsg of error(lineno, message, filename)
FormatError(lineno, message, filename) ==
    IF filename = ""
    THEN IF lineno = 0 THEN message
         ELSE StrOfInt(lineno) \o ": " \o message
    ELSE IF lineno = 0 THEN filename \o ": " \o message
         ELSE filename \o ":" \o StrOfInt(lineno) \o ": " \o message

\* for subscriber in _subscribers: subscriber(errmsg)
RECURSIVE Notify(_, _, _)
Notify(subs, rec, errmsg) ==
    IF subs = <<>> THEN rec
    ELSE Notify(Tail(subs), [rec EXCEPT ![Head(subs)] = Append(@, errmsg)], errmsg)

\* mutant of count_error: the counter advances once per notified handler
count_error_per_handler(n, subs) == n + Len(subs)

\* _num_errors += 1
count_error(n, subs) == n + 1

errors_reported == _num_errors

\* mutant of list_remove: every occurrence of the handler is removed
RECURSIVE list_remove_all(_, _)
list_remove_all(l, h) ==
    IF l = <<>> THEN <<>>
    ELSE IF Head(l) = h THEN list_remove_all(Tail(l), h)
    ELSE <<Head(l)>> \o list_remove_all(Tail(l), h)

\* list.remove(h): the first occurrence is removed
RECURSIVE list_remove(_, _)
list_remove(l, h) ==
    IF l = <<>> THEN <<>>
    ELSE IF Head(l) = h THEN Tail(l)
    ELSE <<Head(l)>> \o list_remove(Tail(l), h)

\* the finally clauses of the n innermost blocks, innermost first
RECURSIVE Unsubscribe(_, _, _)
Unsubscribe(subs, blks, n) ==
    IF n = 0 THEN subs
    ELSE Unsubscribe(list_remove(subs, blks[Len(blks)]),
                     SubSeq(blks, 1, Len(blks) - 1), n - 1)

\* number of entries of l equal to h
RECURSIVE Count(_, _)
Count(l, h) ==
    IF l = <<>> THEN 0
    ELSE (IF Head(l) = h THEN 1 ELSE 0) + Count(Tail(l), h)

\* the message repeated n times
Times(errmsg, n) == [i \in 1..n |-> errmsg]

Call_error ==
    /\ calls < MaxErrors
    /\ \E a \in ErrorArgs(calls) :
          LET errmsg == FormatError(a[1], "msg", a[2])
          IN  /\ received' = Notify(_subscribers, received, errmsg)
              /\ expect' = [h \in Handlers |->
                                expect[h] \o Times(errmsg, Count(blocks, h))]
    /\ _num_errors' = count_error(_num_errors, _subscribers)
    /\ reported' = reported + 1
    /\ calls' = calls + 1
    /\ elast' = [op |-> "error", subs |-> _subscribers]
    /\ UNCHANGED <<_subscribers, blocks>>
    /\ UNCHANGED allvars
    /\ UNCHANGED cvars

Call_clear_errors ==
    /\ _num_errors' = 0
    /\ reported' = 0
    /\ elast' = [op |-> "clear", subs |-> _subscribers]
    /\ UNCHANGED <<_subscribers, received, blocks, expect, calls>>
    /\ UNCHANGED allvars
    /\ UNCHANGED cvars

\* with subscribe_errors(handler): the code before the yield
Enter_subscribe_errors ==
    /\ Len(blocks) < MaxNesting
    /\ \E handler \in Handlers :
          /\ _subscribers' = Append(_subscribers, handler)
          /\ blocks' = Append(blocks, handler)
    /\ elast' = [op |-> "enter", subs |-> _subscribers]
    /\ UNCHANGED <<_num_errors, received, reported, expect, calls>>
    /\ UNCHANGED allvars
    /\ UNCHANGED cvars

\* the innermost with-block ends normally: its finally clause runs
Exit_subscribe_errors ==
    /\ blocks # <<>>
    /\ _subscribers' = Unsubscribe(_subscribers, blocks, 1)
    /\ blocks' = SubSeq(blocks, 1, Len(blocks) - 1)
    /\ elast' = [op |-> "exit", subs |-> _subscribers]
    /\ UNCHANGED <<_num_errors, received, reported, expect, calls>>
    /\ UNCHANGED allvars
    /\ UNCHANGED cvars

\* an exception raised in the innermost block propagates through n blocks
Raise_in_subscribe_errors ==
    /\ blocks # <<>>
    /\ \E n \in 1..Len(blocks) :
          /\ _subscribers' = Unsubscribe(_subscribers, blocks, n)
          /\ blocks' = SubSeq(blocks, 1, Len(blocks) - n)
    /\ elast' = [op |-> "raise", subs |-> _subscribers]
    /\ UNCHANGED <<_num_errors, received, reported, expect, calls>>
    /\ UNCHANGED allvars
    /\ UNCHANGED cvars

\* the interpreter has not been constructed
InterpreterOff ==
    /\ prog = [id |-> 1, k |-> 0, j |-> 0]
    /\ phase = "off"
    /\ M = <<>>
    /\ globals = EmptyDict
    /\ vars = EmptyDict
    /\ offset = 0
    /\ stack = <<>>
    /\ sp = <<>>
    /\ params = <<>>
    /\ registers = <<>>
    /\ returns = <<>>
    /\ pc = 0
    /\ start = 0
    /\ lastpc = 0
    /\ exitcode = 0 - 1
    /\ out = <<>>
    /\ warnings = 0
    /\ inputline = <<>>
    /\ stdin = <<>>
    /\ debug = FALSE
    /\ _breakpoint = None
    /\ nest = 0
    /\ ready = FALSE
    /\ commands = <<>>
    /\ acc = {}
    /\ frames = <<>>
    /\ last = NoStep
    /\ prev = NoStep

InitErrors == ErrorsInit /\ InterpreterOff /\ DriverOff

NextErrors ==
    \/ Call_error
    \/ Call_clear_errors
    \/ Enter_subscribe_errors
    \/ Exit_subscribe_errors
    \/ Raise_in_subscribe_errors

SpecErrors == InitErrors /\ [][NextErrors]_<<allvars, evars>>

(***************************************************************************)
(* The command-line driver: run_compiler and Compiler.compile of           *)
(* src/uc.py ("old"), Compiler.compile of src/src/uc.py ("new", one file    *)
(* and the --llvm option).  The stages themselves (UCParser, Visitor,       *)
(* CodeGenerator, DataFlow, LLVMCodeGenerator) are other modules: a stage  *)
(* is known here by the errors it reports through error() for the file it  *)
(* is given.  The run of the interpreter is known by how it ends.          *)
(***************************************************************************)
\* source files on one command line
MaxFiles == 2

\* a source file: without errors, with an error the parser reports, or with
\* an error semantic analysis reports (an AssertionError of the Visitor)
FileKinds == {"ok", "syntax", "semantic"}

FileLists == UNION {[1..n -> FileKinds] : n \in 1..MaxFiles}

\* lambda msg: sys.stderr.write(msg + "\n")
StderrHandler == "h1"

\* how Interpreter.run ends: it returns, sys.exit is called, an exception
RunOutcomes == {"end", "exit", "fatal"}

\* error() calls of a stage on a file of the given kind
ErrorsIn(kind, stage) ==
    IF \/ kind = "syntax" /\ stage = "parse"
       \/ kind = "semantic" /\ stage = "sema"
    THEN 1 ELSE 0

\* mutant of Gate: a stage runs whatever the error count is
GateOpen(n) == TRUE

\* if not errors_reported():
Gate(n) == n = 0

\* if run_ir and not cfg (under elif not self.args.llvm in the new driver)
RunsInterpreter(d, r, c, l) == r /\ ~c /\ (d = "new" => ~l)

\* self.vm.run(self.optcode) if opt, else self.vm.run(self.gencode)
CodeToRun(o) == IF o THEN "optcode" ELSE "gencode"

\* history: a stage starts on the current file with this many errors reported
Event(stage, code) ==
    [file |-> cfile, stage |-> stage, errs |-> errors_reported, code |-> code]

\* the stage reports its n errors of the current file through error()
StageReports(n, lineno) ==
    /\ _num_errors' = IF n = 1 THEN count_error(_num_errors, _subscribers)
                      ELSE _num_errors
    /\ received' = IF n = 1
                   THEN Notify(_subscribers, received, FormatError(lineno, "msg", ""))
                   ELSE received

\* where control goes when compile returns 0: the next file of run_compiler,
\* or sys.exit(retval) in the new driver
AfterCompile == IF driver = "old" THEN "files" ELSE "done"

\* the with-block of compile ends: the handler is removed
LeaveCompile(next) ==
    /\ _subscribers' = list_remove(_subscribers, StderrHandler)
    /\ cstage' = next

DriverKeeps ==
    /\ UNCHANGED <<driver, files, opt, run_ir, cfg, llvm>>
    /\ UNCHANGED <<blocks, reported, expect, calls, elast>>
    /\ UNCHANGED allvars

\* the next file is read and Compiler.compile enters its with-block
Compile_file ==
    /\ cstage = "files"
    /\ cfile < Len(files)
    /\ cfile' = cfile + 1
    /\ _subscribers' = Append(_subscribers, StderrHandler)
    /\ cstage' = "parse"
    /\ UNCHANGED <<_num_errors, received, events>>
    /\ DriverKeeps

\* self._parse(...)
Do_parse ==
    /\ cstage = "parse"
    /\ events' = Append(events, Event("parse", ""))
    /\ StageReports(ErrorsIn(files[cfile], "parse"), 7)
    /\ cstage' = "sema"
    /\ UNCHANGED <<cfile, _subscribers>>
    /\ DriverKeeps

\* if not errors_reported(): self._sema(...)
Do_sema ==
    /\ cstage = "sema"
    /\ Gate(errors_reported)
    /\ events' = Append(events, Event("sema", ""))
    /\ StageReports(ErrorsIn(files[cfile], "sema"), 0)
    /\ cstage' = "codegen"
    /\ UNCHANGED <<cfile, _subscribers>>
    /\ DriverKeeps

Skip_sema ==
    /\ cstage = "sema"
    /\ ~Gate(errors_reported)
    /\ cstage' = "codegen"
    /\ UNCHANGED <<cfile, _subscribers, _num_errors, received, events>>
    /\ DriverKeeps

\* if not errors_reported(): self._codegen(...), then _opt if opt, and in
\* the new driver _llvm if llvm
Do_codegen ==
    /\ cstage = "codegen"
    /\ Gate(errors_reported)
    /\ events' = events \o <<Event("codegen", "")>>
                 \o (IF opt THEN <<Event("opt", "")>> ELSE <<>>)
                 \o (IF driver = "new" /\ llvm THEN <<Event("llvm", "")>> ELSE <<>>)
    /\ cstage' = "report"
    /\ UNCHANGED <<cfile, _subscribers, _num_errors, received>>
    /\ DriverKeeps

Skip_codegen ==
    /\ cstage = "codegen"
    /\ ~Gate(errors_reported)
    /\ cstage' = "report"
    /\ UNCHANGED <<cfile, _subscribers, _num_errors, received, events>>
    /\ DriverKeeps

\* if errors_reported(): "{} error(s) encountered."
Report_errors ==
    /\ cstage = "report"
    /\ errors_reported # 0
    /\ events' = Append(events, Event("errors", ""))
    /\ LeaveCompile(AfterCompile)
    /\ UNCHANGED <<cfile, _num_errors, received>>
    /\ DriverKeeps

\* self.vm = Interpreter(); self.vm.run(...): sys.exit and exceptions of the
\* run leave compile and the driver
Run_interpreter ==
    /\ cstage = "report"
    /\ errors_reported = 0
    /\ RunsInterpreter(driver, run_ir, cfg, llvm)
    /\ events' = Append(events, Event("run", CodeToRun(opt)))
    /\ \E outcome \in RunOutcomes :
          LeaveCompile(IF outcome = "end" THEN AfterCompile ELSE "done")
    /\ UNCHANGED <<cfile, _num_errors, received>>
    /\ DriverKeeps

\* no error and nothing to run
No_run ==
    /\ cstage = "report"
    /\ errors_reported = 0
    /\ ~RunsInterpreter(driver, run_ir, cfg, llvm)
    /\ LeaveCompile(AfterCompile)
    /\ UNCHANGED <<cfile, _num_errors, received, events>>
    /\ DriverKeeps

\* sys.exit(retval) after the last file
Exit_driver ==
    /\ cstage = "files"
    /\ cfile = Len(files)
    /\ cstage' = "done"
    /\ UNCHANGED <<cfile, _subscribers, _num_errors, received, events>>
    /\ DriverKeeps

InitDriver ==
    /\ ErrorsInit
    /\ InterpreterOff
    /\ driver \in {"old", "new"}
    /\ files \in FileLists
    /\ driver = "new" => Len(files) = 1
    /\ opt \in BOOLEAN
    /\ run_ir \in BOOLEAN
    /\ cfg \in BOOLEAN
    /\ llvm \in (IF driver = "new" THEN BOOLEAN ELSE {FALSE})
    /\ cfile = 0
    /\ cstage = "files"
    /\ events = <<>>

NextDriver ==
    \/ Compile_file
    \/ Do_parse
    \/ Do_sema
    \/ Skip_sema
    \/ Do_codegen
    \/ Skip_codegen
    \/ Report_errors
    \/ Run_interpreter
    \/ No_run
    \/ Exit_driver

SpecDriver == InitDriver /\ [][NextDriver]_<<allvars, evars, cvars>>

(***************************************************************************)
(* Properties.                                                             *)
(***************************************************************************)
\* the instruction executed by step st
InsOf(st) == Code[Pos(Code, st.at)]

\* the last step was a return that went back to the caller of a function
\* entered through its define (a non-main function)
ReturnedToCaller == last.ret.has /\ last.ret.frame.entered

\* C1: immediately after the return of a called non-main function, at any
\* nesting or recursion depth, the locals table and the high-water offset
\* are what they were when the callee's define began, and PC is the index
\* of the instruction after the call.
C1_ReturnRestoresCaller ==
    ReturnedToCaller =>
        /\ vars = last.ret.frame.vars
        /\ offset = last.ret.frame.offset
        /\ pc = last.ret.frame.callat + 1

\* a return from a recursive activation, into a caller that is itself a
\* callee with a table of its own
C1_Witness ==
    /\ ReturnedToCaller
    /\ prog.id = 2
    /\ Len(frames) >= 2
    /\ offset < last.pre.offset
    /\ R("t") \in DOMAIN vars

\* C2: after a return into a caller, the cell of the target register of
\* the most recent call that had not returned holds the value the callee's
\* cell held when the return executed, the empty marker for return_void;
\* S3 leaves the square of the argument in %2.
C2_ReturnValueDelivered ==
    last.ret.has =>
        /\ last.ret.frame.target \in DOMAIN vars
        /\ CellOf(last.ret.frame.target) = last.ret.value
        /\ (last.method \in F_return_void => CellOf(last.ret.frame.target) = None)
        /\ (prog.id = 1 => CellOf(R("2")) = IntV((prog.k + 2) * (prog.k + 2)))

\* S3 with argument 5: 25 is in %2 after the return
C2_Witness ==
    /\ last.ret.has
    /\ prog.id = 1
    /\ prog.k = 3
    /\ CellOf(R("2")) = IntV(25)

\* the last step was a return executed with an empty return stack
ReturnedFromMain ==
    /\ last.at >= 0
    /\ last.method \in F_return_int \cup F_return_void
    /\ last.kind = "scalar"
    /\ last.pre.returns = <<>>

\* C3: a return executed while the return stack is empty terminates the
\* engine, with the value of the returned cell as exit status for return_T
\* and 0 for return_void, and no instruction is executed afterwards.
C3_ReturnFromMainExits ==
    /\ [](ReturnedFromMain =>
            /\ phase = "exit"
            /\ exitcode = IF last.method \in F_return_void THEN 0
                          ELSE last.ret.value.v)
    /\ [][phase = "exit" => UNCHANGED allvars]_allvars

\* main has returned the non-zero value computed by the recursion
C3_Witness ==
    /\ ReturnedFromMain
    /\ phase = "exit"
    /\ prog.id = 2
    /\ exitcode = 6

\* the sum of the values of a function with a finite domain
RECURSIVE SumFn(_)
SumFn(f) ==
    IF DOMAIN f = {} THEN 0
    ELSE LET x == CHOOSE y \in DOMAIN f : TRUE
         IN  f[x] + SumFn([y \in DOMAIN f \ {x} |-> f[y]])

\* the names the label scan binds in this program (to PCs, not to cells)
LabelNames ==
    {R(Join(ChopLast(Code[i].op))) :
        i \in {n \in 1..Len(Code) : TupleLen(Code[n]) = 1
                                   /\ Join(Code[n].op) # "return_void"}}

\* the instructions of the program that bind name n to several cells: a
\* shaped alloc of n or a shaped (dims only) load into n
ShapedDefs(n) ==
    {i \in 1..Len(Code) :
        /\ TupleLen(Code[i]) > 1
        /\ LET d == _extract_operation(Code[i].op)
           IN  /\ d.ok
               /\ d.modifier # <<>>
               /\ RefCount(d.modifier) = 0
               /\ \/ StartsWith(Code[i].op, "alloc") /\ Code[i].a[1] = n
                  \/ StartsWith(Code[i].op, "load") /\ Code[i].a[2] = n}

\* number of cells bound to name n: the product of its dims if it is shaped
NameCells(n) ==
    IF ShapedDefs(n) = {} THEN 1
    ELSE DimProduct(_extract_operation(Code[CHOOSE i \in ShapedDefs(n) : TRUE].op).modifier)

\* cells bound to the register and variable names of a locals table
TableCells(table) == SumFn([n \in DOMAIN table \ LabelNames |-> NameCells(n)])

\* cells the loader reserves: one per define, the dims product per global
GlobalCells ==
    SumFn([i \in {n \in 1..Len(Code) : TupleLen(Code[n]) > 1
                                        /\ (StartsWith(Code[n].op, "global")
                                            \/ StartsWith(Code[n].op, "define"))}
             |-> IF StartsWith(Code[i].op, "global")
                 THEN DimProduct(_extract_operation(Code[i].op).modifier)
                 ELSE 1])

\* C4: at every instruction fetch the high-water offset is the number of
\* cells reserved for globals plus the number of cells bound to names in the
\* current table and in every saved caller table, also when an allocating
\* instruction is repeated for the same name in a loop.
C4_OffsetCountsLiveCells ==
    phase = "run" =>
        offset = GlobalCells + TableCells(vars)
                 + SumFn([i \in 1..Len(stack) |-> TableCells(stack[i])])

\* C5: the high-water offset never exceeds the capacity of M, during
\* loading and during execution.
C5_OffsetWithinCapacity == offset <= Capacity

\* the decoded opcode of the instruction executed by step st
DecOf(st) == _extract_operation(InsOf(st).op)

\* step st executed an instruction tuple (not a label)
Executed(st) ==
    /\ st.at >= 0
    /\ \/ TupleLen(InsOf(st)) > 1
       \/ Join(InsOf(st).op) \in {"return_void", "print_void"}

\* name n is bound in the state record st
Bound(st, n) == n \in DOMAIN (IF IsGlobalName(n) THEN st.globals ELSE st.vars)

\* the offset name n is bound to in the state record st
AddrIn(st, n) == IF IsGlobalName(n) THEN st.globals[n] ELSE st.vars[n]

\* the cell of name n in the state record st (None if it has none)
CellIn(st, n) ==
    IF Bound(st, n) /\ AddrIn(st, n) >= 0 /\ AddrIn(st, n) < Len(st.M)
    THEN st.M[AddrIn(st, n) + 1] ELSE None

\* C6: a handler access to a cell outside 0..capacity-1 (negative, or at or
\* past the capacity, also by a multi-cell alloc or copy) is fatal and
\* modifies no cell; a dereference of a never assigned pointer cell is fatal.
C6_OutOfRangeIsFatal ==
    last.at >= 0 =>
        /\ (\E o \in acc : o < 0 \/ o >= Capacity) =>
               phase = "fatal" /\ M = last.pre.M
        /\ ( /\ last.kind = "shaped"
             /\ last.method \in F_load_int_ \cup F_store_int_
             /\ RefCount(DecOf(last).modifier) = 1
             /\ DimProduct(DecOf(last).modifier) = 1
             /\ LET ptr == IF last.method \in F_load_int_ THEN InsOf(last).a[1]
                           ELSE InsOf(last).a[2]
                IN  Bound(last.pre, ptr) /\ CellIn(last.pre, ptr) = None )
           => phase = "fatal"

\* the instruction of step st needs a handler variant that does not exist
NeedsMissingHandler(st) ==
    /\ Executed(st)
    /\ DecOf(st).ok
    /\ IF DecOf(st).modifier = <<>>
       THEN ("run_" \o DecOf(st).opcode) \notin Methods
       ELSE ("run_" \o DecOf(st).opcode \o "_") \notin Methods

\* C7: an instruction whose operation has no handler of the variant it needs
\* produces a diagnostic, changes neither M nor the tables nor the stacks,
\* and execution continues with the next instruction.
C7_NoHandlerContinues ==
    NeedsMissingHandler(last) =>
        /\ phase = "run"
        /\ warnings = last.pre.warnings + 1
        /\ pc = last.at + 1
        /\ M = last.pre.M
        /\ globals = last.pre.globals
        /\ vars = last.pre.vars
        /\ <<stack, sp, registers, returns>>
             = <<last.pre.stack, last.pre.sp, last.pre.registers, last.pre.returns>>

\* C8: the handler variant is selected by the shape alone: the scalar
\* handler of the canonical operation for an empty shape, its shaped handler
\* for a non-empty shape whenever the class defines one.
C8_DispatchByShape ==
    (Executed(last) /\ DecOf(last).ok) =>
        /\ (DecOf(last).modifier = <<>>
              /\ ("run_" \o DecOf(last).opcode) \in Methods)
           => (last.kind = "scalar" /\ last.method = "run_" \o DecOf(last).opcode)
        /\ (DecOf(last).modifier # <<>>
              /\ ("run_" \o DecOf(last).opcode \o "_") \in Methods)
           => (last.kind = "shaped"
               /\ last.method = "run_" \o DecOf(last).opcode \o "_")

\* step st executed <o>_T_* for a type tag T of int, float, char
IsPtrOp(st, o) ==
    /\ Executed(st)
    /\ LET w == Split(InsOf(st).op)
       IN  Len(w) = 3 /\ w[1] = o /\ w[2] \in {"int", "float", "char"} /\ w[3] = "*"

\* step st executed the scalar <o>_T
IsScalarOp(st, o) ==
    /\ Executed(st)
    /\ LET w == Split(InsOf(st).op)
       IN  Len(w) = 2 /\ w[1] = o /\ w[2] \in {"int", "float", "char", "bool"}

\* last executed the instruction that follows the one prev executed
Consecutive == prev.at >= 0 /\ last.at = prev.at + 1

\* C9: get_T_* x p leaves x's offset in p's cell, whether or not p was
\* allocated before, and a following load_T_* p r leaves the value of x's
\* cell in r's cell, for T in int, float, char.
C9_GetThenLoad ==
    /\ (IsPtrOp(last, "get") /\ Bound(last.pre, InsOf(last).a[1])) =>
           /\ phase = "run"
           /\ CellOf(InsOf(last).a[2]) = IntV(AddrIn(last.pre, InsOf(last).a[1]))
    /\ ( /\ Consecutive
         /\ IsPtrOp(prev, "get")
         /\ IsPtrOp(last, "load")
         /\ Bound(prev.pre, InsOf(prev).a[1])
         /\ InsOf(prev).a[2] = InsOf(last).a[1] ) =>
           /\ phase = "run"
           /\ CellOf(InsOf(last).a[2]) = CellIn(prev.pre, InsOf(prev).a[1])
           /\ CellOf(InsOf(last).a[1]) = IntV(AddrIn(prev.pre, InsOf(prev).a[1]))

\* M differs from the memory m only at the offsets in S
OnlyChanged(m, S) ==
    /\ Len(M) = Len(m)
    /\ \A i \in 0..(Len(m) - 1) : i \notin S => M[i + 1] = m[i + 1]

\* prev executed store_T s y and last executed load_T y d
StoreThenLoad ==
    /\ Consecutive
    /\ IsScalarOp(prev, "store")
    /\ IsScalarOp(last, "load")
    /\ InsOf(prev).a[2] = InsOf(last).a[1]
    /\ Bound(prev.pre, InsOf(prev).a[1])
    /\ Bound(prev.pre, InsOf(prev).a[2])

\* prev executed store_T_* s p and last executed load_T_* p d, p holding a
\* valid cell offset
StoreThenLoadThrough ==
    /\ Consecutive
    /\ IsPtrOp(prev, "store")
    /\ IsPtrOp(last, "load")
    /\ InsOf(prev).a[2] = InsOf(last).a[1]
    /\ Bound(prev.pre, InsOf(prev).a[1])
    /\ Bound(prev.pre, InsOf(prev).a[2])
    /\ CellIn(prev.pre, InsOf(prev).a[2]).t = "int"
    /\ CellIn(prev.pre, InsOf(prev).a[2]).v \in 0..(Capacity - 1)

\* the offset held by p in store_T_* s p is the offset of p's own cell
PointsToItself ==
    CellIn(prev.pre, InsOf(prev).a[2]).v = AddrIn(prev.pre, InsOf(prev).a[2])

\* what a store followed by a load of the same cell leaves behind
ScalarRoundTrip ==
    StoreThenLoad =>
        /\ phase = "run"
        /\ CellOf(InsOf(last).a[2]) = CellIn(prev.pre, InsOf(prev).a[1])
        /\ OnlyChanged(prev.pre.M, {AddrIn(prev.pre, InsOf(prev).a[2]),
                                    vars[InsOf(last).a[2]]})

ThroughRoundTrip ==
    /\ phase = "run"
    /\ CellOf(InsOf(last).a[2]) = CellIn(prev.pre, InsOf(prev).a[1])
    /\ OnlyChanged(prev.pre.M, {CellIn(prev.pre, InsOf(prev).a[2]).v,
                                vars[InsOf(last).a[2]]})

\* C10 as stated: store_T s y then load_T y d leaves the value of s in d's
\* cell, and so does store_T_* s p then load_T_* p d for every p holding a
\* valid offset; no cell other than the stored-to cell and d's cell changes.
C10_AsStated ==
    /\ ScalarRoundTrip
    /\ StoreThenLoadThrough => ThroughRoundTrip

\* C10: store_T s y then load_T y d leaves the value of s in d's cell, and
\* so does store_T_* s p then load_T_* p d for p holding a valid offset other
\* than the offset of p's own cell; no cell other than the stored-to cell and
\* d's cell changes.
C10_StoreThenLoad ==
    /\ ScalarRoundTrip
    /\ (StoreThenLoadThrough /\ ~PointsToItself) => ThroughRoundTrip

\* a non-zero value of type float has gone through a pointer to a local
\* and come back
C10_Witness ==
    /\ StoreThenLoadThrough
    /\ ~PointsToItself
    /\ Split(InsOf(prev).op)[2] = "float"
    /\ CellOf(InsOf(last).a[2]) = IntV(prog.k + 1)
    /\ M # prev.pre.M
    /\ CellIn(prev.pre, InsOf(prev).a[2]).v = prev.pre.vars[R("y")]

\* step st executed elem_T for a type tag T of int, float, char
IsElem(st) ==
    /\ Executed(st)
    /\ LET w == Split(InsOf(st).op)
       IN  Len(w) = 2 /\ w[1] = "elem" /\ w[2] \in {"int", "float", "char"}

\* prev executed elem_T a i p on an array a that a shaped alloc of the
\* current function allocated, with 0 <= i < n for the n cells of a
ElemInRange ==
    /\ Consecutive
    /\ IsElem(prev)
    /\ ~IsGlobalName(InsOf(prev).a[1])
    /\ InsOf(prev).a[1] \in DOMAIN prev.pre.vars
    /\ \E d \in ShapedDefs(InsOf(prev).a[1]) : StartsWith(Code[d].op, "alloc")
    /\ CellIn(prev.pre, InsOf(prev).a[2]).t = "int"
    /\ CellIn(prev.pre, InsOf(prev).a[2]).v \in 0..(NameCells(InsOf(prev).a[1]) - 1)

\* offset address(a) + i of the cell that prev's elem_T a i p designates
ElemOffset ==
    AddrIn(prev.pre, InsOf(prev).a[1]) + CellIn(prev.pre, InsOf(prev).a[2]).v

\* C11: for an array a of n cells of the current function and 0 <= i < n,
\* elem_T a i p; store_T_* v p leaves v's value in the cell address(a) + i and
\* changes no other cell than that one and p's own, and elem_T a i q;
\* load_T_* q r reads the cell address(a) + i into r (S4).
C11_ElemIndexedAccess ==
    /\ ( /\ ElemInRange
         /\ IsPtrOp(last, "store")
         /\ InsOf(last).a[2] = InsOf(prev).a[3] ) =>
           /\ phase = "run"
           /\ M[ElemOffset + 1] = CellIn(prev.pre, InsOf(last).a[1])
           /\ OnlyChanged(prev.pre.M, {ElemOffset, vars[InsOf(prev).a[3]]})
    /\ ( /\ ElemInRange
         /\ IsPtrOp(last, "load")
         /\ InsOf(last).a[1] = InsOf(prev).a[3] ) =>
           /\ phase = "run"
           /\ CellOf(InsOf(last).a[2]) = prev.pre.M[ElemOffset + 1]
           /\ OnlyChanged(prev.pre.M, {vars[InsOf(prev).a[3]],
                                       vars[InsOf(last).a[2]]})

\* the 7 stored at a non-zero index of a float array has been read back
\* through a second elem, after 9 was stored at another index
C11_Witness ==
    /\ ElemInRange
    /\ IsPtrOp(last, "load")
    /\ InsOf(prev).a[3] = R("q")
    /\ Split(InsOf(prev).op)[2] = "float"
    /\ CellIn(prev.pre, InsOf(prev).a[2]).v > 0
    /\ CellOf(R("r")) = IntV(7)
    /\ \E o \in 0..(Len(M) - 1) : M[o + 1] = IntV(9)

\* the instruction at PC p is a label tuple name:
IsLabelAt(p) ==
    /\ TupleLen(Code[p + 1]) = 1
    /\ Join(Code[p + 1].op) \notin {"return_void", "print_void"}

IsDefineAt(p) == StartsWith(Code[p + 1].op, "define")

\* the PCs after the define at PC d and before the next define
BodyOf(d) ==
    {p \in (d + 1)..(Len(Code) - 1) : \A q \in (d + 1)..p : ~IsDefineAt(q)}

\* the PC of the define of the function the instruction at PC p belongs to
DefineOf(p) ==
    CHOOSE d \in 0..p : IsDefineAt(d) /\ \A q \in (d + 1)..p : ~IsDefineAt(q)

\* the register name a label tuple binds
LabelAt(p) == R(Join(ChopLast(Code[p + 1].op)))

\* C15: when a function is entered through its define at PC d, every label
\* tuple at a PC p of its body is mapped in the current locals table to
\* p + 1, and a jump or cbranch to a label continues at the instruction
\* that follows the label tuple.
C15_LabelsMapToNextPC ==
    /\ ( /\ last.at >= 0
         /\ last.method \in F_define_int \cup F_define_void
         /\ phase = "run" ) =>
           \A p \in BodyOf(last.at) :
               IsLabelAt(p) => /\ LabelAt(p) \in DOMAIN vars
                               /\ vars[LabelAt(p)] = p + 1
    /\ ( /\ last.at >= 0
         /\ last.method \in F_jump \cup F_cbranch
         /\ phase = "run" ) =>
           \E p \in BodyOf(DefineOf(last.at)) :
               /\ IsLabelAt(p)
               /\ LabelAt(p) \in
                      {InsOf(last).a[n] : n \in (IF last.method \in F_jump
                                                 THEN {1} ELSE {2, 3})}
               /\ pc = p + 1

\* a cbranch of a called function, entered by a recursive call, has gone to
\* a label of that function
C15_Witness ==
    /\ last.at >= 0
    /\ last.method \in F_cbranch
    /\ Len(stack) >= 2
    /\ IsLabelAt(pc - 1)
    /\ LabelAt(pc - 1) = R("rec")
    /\ vars[R("base")] = 10

\* C19: the number of cells of Memory is the same in every reachable state.
C19_MemoryLengthFixed == Len(M) = Capacity

\* C20: after the loader pass over a program of N instructions, lastpc is N.
C20_LastpcIsLength == phase \in {"run", "end", "exit"} => lastpc = Len(Code)

\* the instruction at PC p stores through a pointer or to a global
IsOutwardStore(p) ==
    /\ TupleLen(Code[p + 1]) = 3
    /\ StartsWith(Code[p + 1].op, "store")
    /\ \/ IsGlobalName(Code[p + 1].a[2])
       \/ LET d == _extract_operation(Code[p + 1].op)
          IN  d.ok /\ RefCount(d.modifier) > 0

\* no function other than @main stores through a pointer or to a global
CalleesStoreLocally ==
    \A d \in 0..(Len(Code) - 1) :
        (IsDefineAt(d) /\ Code[d + 1].a[1] # G("main")) =>
            \A p \in BodyOf(d) : ~IsOutwardStore(p)

\* every cell below the caller's high-water offset, the cell of the call's
\* target register excepted, holds what it held before the call
CallerCellsKept ==
    \A o \in 0..(last.ret.frame.offset - 1) :
        o # last.ret.frame.vars[last.ret.frame.target] =>
            M[o + 1] = last.ret.frame.M[o + 1]

\* C16: after the return of a call to a function that stores neither through
\* a pointer nor to a global, every cell below the caller's high-water offset
\* (as it was when the callee's define began) holds what it held before the
\* call, except the cell of the call's target register.
C16_CallKeepsCallerCells ==
    (ReturnedToCaller /\ CalleesStoreLocally) => CallerCellsKept

\* the callee of ProgFrame has bound its parameter, written temporaries and
\* two arrays above main's cells and returned
C16_Witness ==
    /\ ReturnedToCaller
    /\ CalleesStoreLocally
    /\ prog.id = 12
    /\ last.pre.offset = last.ret.frame.offset + 7
    /\ M[last.ret.frame.offset + 1] # last.ret.frame.M[last.ret.frame.offset + 1]
    /\ CellOf(R("r")) = IntV(9)

IsNumberRead(st) ==
    /\ Executed(st)
    /\ st.method \in F_read_int \cup F_read_int_ \cup F_read_float \cup F_read_float_

\* the input buffer the read of step st took its token from
BufferOf(st) == _get_input(st.pre).inputline

\* the token parses as a number of the type that step st reads
ParsesFor(st, text) ==
    IF st.method \in F_read_int \cup F_read_int_
    THEN ParseInt(text).ok ELSE ParseFloat(text).ok

\* the last step was a read_int or read_float that took a token which does
\* not parse as a number of its type
MalformedRead ==
    /\ IsNumberRead(last)
    /\ BufferOf(last) # <<>>
    /\ ~ParsesFor(last, BufferOf(last)[1])

\* the cell a read stores to: the operand's cell, or for read_T_* the cell
\* whose offset the operand's cell holds
ReadDestination ==
    IF last.method \in F_read_int \cup F_read_float
    THEN CellOf(InsOf(last).a[1])
    ELSE M[Pos(M, CellOf(InsOf(last).a[1]).v)]

\* the raw token is in the destination cell, that one token has left the
\* buffer, and the engine is at the next instruction
RawTokenStored ==
    /\ ReadDestination = StrV(BufferOf(last)[1])
    /\ inputline = Tail(BufferOf(last))
    /\ phase = "run"
    /\ pc = last.at + 1

\* C12: when read_int (or read_float) consumes a token that does not parse
\* as a number of that type, "Illegal input value." is printed, the raw
\* token is stored unchanged in the destination cell, exactly that token
\* leaves the input buffer, and execution continues with the next
\* instruction.
C12_MalformedTokenDiagnosed ==
    MalformedRead =>
        /\ IllegalInputMessage \in {out[i] : i \in 1..Len(out)}
        /\ RawTokenStored

\* the last line entered at a debugger prompt
LastCommand == commands[Len(commands)]

QuitEntered == commands # <<>> /\ LastCommand.op = "quit"

\* C13: once q/quit has been entered at a debugger prompt, the engine does
\* nothing but terminate with exit status 0: no instruction of the program
\* is executed, no cell is written, nothing is printed and the exit status
\* is not the program's, whatever PC points at and whatever was entered
\* before.
C13_QuitTerminatesAtOnce ==
    [][QuitEntered =>
          /\ phase' = "exit"
          /\ exitcode' = 0
          /\ last' = last
          /\ M' = M
          /\ out' = out]_allvars

\* the last line entered was go n for an instruction index n of the program
GoEntered ==
    /\ commands # <<>>
    /\ LastCommand.op = "go"
    /\ LastCommand.n \in 0..(Len(Code) - 1)

\* C14: after g/go n at a debugger prompt, for every instruction index n,
\* the engine prompts again only at an instruction fetch at which PC = n,
\* and at every such fetch it prompts before the instruction is executed;
\* until then instructions are executed without a prompt, to the normal end
\* of the program if PC never equals n.
C14_GoRunsToTarget ==
    GoEntered =>
        /\ nest > 0 => (LastCommand.depth = 1 /\ pc = LastCommand.n)
        /\ AtLoopTop => (~QuitPending /\ (PromptDue <=> pc = LastCommand.n))

\* the positions of the prompts in the output
PromptsAt == {i \in 1..Len(out) : out[i] = PromptMessage}

\* what was printed between the last two prompts: the output of the last
\* command that stayed in the debugger
LastPrinted ==
    LET n == CHOOSE i \in PromptsAt : \A j \in PromptsAt : j <= i
        before == {i \in PromptsAt : i < n}
        m == IF before = {} THEN 0
             ELSE CHOOSE i \in before : \A j \in before : j <= i
    IN  SubSeq(out, m + 1, n - 1)

\* the formatted lines of the instructions a..b-1
LinesOf(a, b) == [i \in 1..Max(0, b - a) |-> [t |-> "line", v |-> a + i - 1]]

\* the last line entered was list, with arguments within the program or
\* with none
ListEntered ==
    /\ commands # <<>>
    /\ LastCommand.op = "list"
    /\ LET args == ListArgs[LastCommand.n]
       IN  Len(args) = 2 => (0 <= args[1] /\ args[1] <= args[2] /\ args[2] <= Len(Code))

\* C21: list without arguments prints one line for every instruction index
\* 0..N-1 of the program; list start end prints the lines of that range.
C21_ListPrintsProgram ==
    ListEntered =>
        LET args == ListArgs[LastCommand.n]
        IN  LastPrinted = IF Len(args) = 2 THEN LinesOf(args[1], args[2])
                          ELSE LinesOf(0, Len(Code))

StepEntered == commands # <<>> /\ LastCommand.op = "step"

RunEntered == commands # <<>> /\ LastCommand.op = "run"

\* C22: every s/step entered at a debugger prompt, also one reached after
\* view, list, ex or help, leaves the debugger, one instruction is executed
\* and the next prompt appears; every r/run entered at a prompt leaves the
\* debugger and the program runs on with no further prompt.
C22_StepAndRun ==
    /\ StepEntered =>
          /\ LastCommand.depth = 1
          /\ AtLoopTop => (PromptDue /\ ~QuitPending)
    /\ RunEntered =>
          /\ nest = 0
          /\ AtLoopTop => (~PromptDue /\ ~QuitPending)

\* a function is executing: PC is past a define and not at one
InFunction ==
    /\ phase = "run"
    /\ pc >= 1
    /\ \E d \in 0..(pc - 1) : IsDefineAt(d)
    /\ ~(IndexOK(Code, pc) /\ IsDefineAt(pc))

\* the PC of the next define after the define at PC d, or the program length
NextDefine(d) ==
    LET later == {e \in (d + 1)..(Len(Code) - 1) : IsDefineAt(e)}
    IN  IF later = {} THEN Len(Code)
        ELSE CHOOSE e \in later : \A x \in later : e <= x

\* the names the label tuples of the program bind
ProgramLabels == {LabelAt(p) : p \in {q \in 0..(Len(Code) - 1) : IsLabelAt(q)}}

\* C23: while the function defined at PC d is executing, every label entry
\* of the current locals table has a value v with d < v <= e, for e the PC
\* of the next define after d (the program length if there is none), and is
\* the entry of a label tuple of that function's body: the table holds no
\* label entry of another function, also after calls and returns.
C23_LabelEntriesOfCurrentFunction ==
    InFunction =>
        LET d == DefineOf(pc - 1)
        IN  \A n \in DOMAIN vars \cap ProgramLabels :
                /\ d < vars[n]
                /\ vars[n] <= NextDefine(d)
                /\ \E p \in BodyOf(d) : IsLabelAt(p) /\ LabelAt(p) = n

\* main, whose table holds its three labels, is back from the call of f,
\* whose table held the label of f
C23_Witness ==
    /\ InFunction
    /\ prog.id = 14
    /\ ReturnedToCaller
    /\ DOMAIN vars \cap ProgramLabels = {R("then"), R("else"), R("end")}
    /\ DOMAIN last.pre.vars \cap ProgramLabels = {R("out")}
    /\ vars[R("end")] = 18

\* C24: one-element tuples are labels except return_void and print_void:
\* the label scan of a define binds a name for each label tuple of the body
\* and none for a return_void or print_void, and the main loop skips label
\* tuples and executes return_void and print_void.
C24_VoidTuplesAreNotLabels ==
    /\ ( /\ last.at >= 0
         /\ last.method \in F_define_int \cup F_define_void
         /\ phase = "run" ) =>
           \A p \in BodyOf(last.at) :
               TupleLen(Code[p + 1]) = 1 =>
                   (LabelAt(p) \in DOMAIN vars <=> IsLabelAt(p))
    /\ ( last.at >= 0 /\ TupleLen(InsOf(last)) = 1 ) =>
           (last.kind = "label" <=> IsLabelAt(last.at))

\* the last step left Memory, the tables, the high-water offset and the
\* four stacks as they were
OnlyPCChanged ==
    /\ M = last.pre.M
    /\ vars = last.pre.vars
    /\ globals = last.pre.globals
    /\ offset = last.pre.offset
    /\ stack = last.pre.stack
    /\ sp = last.pre.sp
    /\ registers = last.pre.registers
    /\ returns = last.pre.returns

\* C25: cbranch c Lt Lf sets PC to the PC mapped for Lt when the cell of c
\* is truthy and to the PC mapped for Lf otherwise; jump L sets PC to the PC
\* mapped for L; neither changes Memory, the symbol tables, the high-water
\* offset or a stack, and the branch not taken is not executed: the if/else
\* program prints 2 when %c holds 0 and 1 otherwise.
C25_BranchSetsPC ==
    /\ (last.at >= 0 /\ last.method \in F_cbranch /\ phase = "run") =>
          /\ pc = last.pre.vars[IF Truthy(CellIn(last.pre, InsOf(last).a[1]))
                                THEN InsOf(last).a[2] ELSE InsOf(last).a[3]]
          /\ OnlyPCChanged
    /\ (last.at >= 0 /\ last.method \in F_jump /\ phase = "run") =>
          /\ pc = last.pre.vars[InsOf(last).a[1]]
          /\ OnlyPCChanged
    /\ (prog.id = 9 /\ phase = "exit") =>
          out = <<IntV(IF prog.k = 0 THEN 2 ELSE 1), NewLine>>

\* the cbranch of the if/else program has gone to the else branch on a 0
C25_Witness ==
    /\ prog.id = 9
    /\ last.at = 2
    /\ last.method \in F_cbranch
    /\ CellOf(R("c")) = IntV(0)
    /\ pc = 7
    /\ vars[R("else")] = 7
    /\ vars[R("then")] = 4

\* the declared parameters of the define at PC d: (type, name) pairs
Declared(d) == Code[d + 1].a[2]

\* the last step was the define of a function other than main, entered
\* with as many pending parameters as it declares
EnteredWithParams ==
    /\ last.at >= 0
    /\ last.method \in F_define_int \cup F_define_void
    /\ InsOf(last).a[1] # G("main")
    /\ Len(last.pre.params) = Len(Declared(last.at))
    /\ phase = "run"

\* the last step stored into the cell of a declared parameter of the
\* function that is executing, which was entered by a call
StoredToParameter ==
    /\ Executed(last)
    /\ last.method \in F_store_int
    /\ phase = "run"
    /\ frames # <<>>
    /\ frames[Len(frames)].entered
    /\ \E i \in 1..Len(Declared(DefineOf(last.at))) :
           Declared(DefineOf(last.at))[i][2] = InsOf(last).a[2]

\* C26: on entry to a function other than main with k declared parameters
\* and k pending param instructions, the i-th declared name is bound to a
\* fresh cell at an offset at or above the caller's high-water offset, which
\* holds a copy of the cell the i-th param named; the pending list is then
\* empty; a later write to a parameter's cell changes no cell of the caller.
C26_ParametersByValue ==
    /\ EnteredWithParams =>
          /\ params = <<>>
          /\ \A i \in 1..Len(Declared(last.at)) :
                LET n == Declared(last.at)[i][2]
                IN  /\ n \in DOMAIN vars
                    /\ vars[n] >= last.pre.offset
                    /\ vars[n] < offset
                    /\ M[vars[n] + 1] = last.pre.M[last.pre.params[i] + 1]
                    /\ \A j \in 1..Len(Declared(last.at)) :
                           j # i => vars[Declared(last.at)[j][2]] # vars[n]
    /\ StoredToParameter =>
          \A o \in 0..(frames[Len(frames)].offset - 1) : M[o + 1] = last.pre.M[o + 1]

\* f of ProgLab has been entered with its two parameters bound to copies of
\* 7 and k, in that order, above the four cells of main
C26_Witness ==
    /\ EnteredWithParams
    /\ prog.id = 14
    /\ prog.k = 2
    /\ CellOf(R("a")) = IntV(7)
    /\ CellOf(R("b")) = IntV(2)
    /\ vars[R("a")] = last.pre.offset
    /\ vars[R("b")] = last.pre.offset + 1
    /\ last.pre.params = <<last.pre.vars[R("3")], last.pre.vars[R("1")]>>

(***************************************************************************)
(* C27: what the first loop of run leaves behind.                          *)
(***************************************************************************)
IsGlobalAt(p) == TupleLen(Code[p + 1]) > 1 /\ StartsWith(Code[p + 1].op, "global")

RECURSIVE ProductOfDims(_)
ProductOfDims(segs) ==
    IF segs = <<>> THEN 1
    ELSE (IF IsDigit(Head(segs)) THEN DigitVal[Head(segs)] ELSE 1)
         * ProductOfDims(Tail(segs))

\* cells the instruction at PC p declares: one for a define, the product of
\* the dims for a global (1 without dims), none for any other instruction
ReservedAt(p) ==
    IF TupleLen(Code[p + 1]) > 1 /\ IsDefineAt(p) THEN 1
    ELSE IF IsGlobalAt(p)
    THEN LET segs == Split(Code[p + 1].op)
         IN  ProductOfDims(SubSeq(segs, 3, Len(segs)))
    ELSE 0

\* cells declared before PC p
RECURSIVE RegionStart(_)
RegionStart(p) == IF p = 0 THEN 0 ELSE RegionStart(p - 1) + ReservedAt(p - 1)

Declarations == {p \in 0..(Len(Code) - 1) : ReservedAt(p) > 0}

MainDefines == {p \in Declarations : IsDefineAt(p) /\ Code[p + 1].a[1] = G("main")}

LoaderLayout ==
    /\ DOMAIN globals = {Code[p + 1].a[1] : p \in Declarations}
    /\ \A p \in Declarations :
          /\ globals[Code[p + 1].a[1]] = RegionStart(p)
          /\ IsDefineAt(p) => M[globals[Code[p + 1].a[1]] + 1] = IntV(p)
    /\ offset = RegionStart(Len(Code))
    /\ pc = IF MainDefines = {} THEN 0 ELSE CHOOSE p \in MainDefines : TRUE
    /\ vars = EmptyDict
    /\ stack = <<>> /\ sp = <<>> /\ registers = <<>> /\ returns = <<>>
    /\ params = <<>>

\* C27: when the loader has passed over the program, globals maps the name
\* of every define at PC p to a cell that holds p and every global to the
\* first cell of its region; the regions follow each other from offset 0 in
\* program order, each as long as the product of the dims (1 without dims),
\* and offset is their total; execution starts at the define of @main, at
\* PC 0 if there is none; a loader step at a label or at an instruction that
\* is neither a global nor a define changes no table, cell or counter.
C27_LoaderLayout ==
    [][/\ (phase = "load" /\ phase' = "run") => LoaderLayout'
       /\ (phase = "load" /\ IndexOK(Code, pc) /\ ReservedAt(pc) = 0) =>
             /\ M' = M /\ globals' = globals /\ offset' = offset
             /\ start' = start /\ vars' = vars /\ out' = out]_allvars

\* ProgGlob has been loaded: @a at 0, the three cells of @arr from 1, the
\* two cells of @e from 4, the define of @main (PC 3) in cell 6
C27_Witness ==
    /\ phase = "run" /\ last = NoStep
    /\ prog.id = 10 /\ prog.j = 0
    /\ globals[G("a")] = 0 /\ globals[G("arr")] = 1 /\ globals[G("e")] = 4
    /\ globals[G("main")] = 6
    /\ M[7] = IntV(3)
    /\ offset = 7
    /\ pc = 3

\* C28: at every instruction fetch the saved locals tables, the saved
\* high-water offsets, the caller target-register names and the return PCs
\* have the same depth, which is the number of calls that have not returned.
C28_StacksInLockStep ==
    Fetch => /\ Len(stack) = Len(sp)
             /\ Len(sp) = Len(registers)
             /\ Len(registers) = Len(returns)
             /\ Len(returns) = Len(frames)

(***************************************************************************)
(* C29: a read at the end of the input.                                    *)
(***************************************************************************)
\* a read_T has been dispatched with the token buffer empty and no line
\* left on the input channel, and has printed the message of _get_input
InsideReadAtEndOfInput == phase = "reading"

Terminated == phase \in {"exit", "fatal", "end"}

\* C29: a read_T that executes with the token buffer empty and the input
\* channel at end-of-file leads to the termination of the engine; the
\* engine does not stay inside the read forever.
C29_ReadTerminates == InsideReadAtEndOfInput ~> Terminated

(***************************************************************************)
(* C30: the tokens the reads consume.                                      *)
(***************************************************************************)
ReadMethods ==
    F_read_int \cup F_read_int_ \cup F_read_float \cup F_read_float_
    \cup F_read_char \cup F_read_char_

\* text.split(): the whitespace-delimited tokens of a text
TokensOf(text) == SplitWords(text, <<>>, <<>>)

\* the tokens of the input text that no read has consumed in state record st
Pending(st) == st.inputline \o TokensOf(st.stdin)

IsSuffix(a, b) == Len(a) <= Len(b) /\ a = SubSeq(b, Len(b) - Len(a) + 1, Len(b))

\* the last step was a read_T that stored a value and went on
ReadCompleted ==
    /\ Executed(last)
    /\ last.method \in ReadMethods
    /\ phase = "run"

\* the cell the read of the last step stored to
ReadCell ==
    IF last.method \in F_read_int \cup F_read_float \cup F_read_char
    THEN CellOf(InsOf(last).a[1])
    ELSE M[Pos(M, CellOf(InsOf(last).a[1]).v)]

\* what a read of the kind of step st stores for token tok
TokenValue(st, tok) ==
    IF st.method \in F_read_int \cup F_read_int_
    THEN (IF ParseInt(tok).ok THEN ParseInt(tok).v ELSE StrV(tok))
    ELSE IF st.method \in F_read_float \cup F_read_float_
    THEN (IF ParseFloat(tok).ok THEN ParseFloat(tok).v ELSE StrV(tok))
    ELSE StrV(tok)

\* C30: the reads consume the whitespace-delimited tokens of the input text
\* in order and each once: the unconsumed tokens are always a suffix of the
\* tokens of the text, and a read that completes stores the value of the
\* first unconsumed token, whole, and leaves the tokens after it, also when
\* the token stands on a final line that has no line terminator.
C30_TokensInOrder ==
    /\ prog.id = 13 => IsSuffix(Pending(Cur), TokensOf(InputText(prog.j)))
    /\ ReadCompleted =>
          /\ Pending(last.pre) # <<>>
          /\ Pending(Cur) = Tail(Pending(last.pre))
          /\ ReadCell = TokenValue(last, Head(Pending(last.pre)))

(***************************************************************************)
(* C31, C32: the stages the driver runs.                                   *)
(***************************************************************************)
\* the driver is through with the i-th file
Completed(i) == i < cfile \/ (i = cfile /\ cstage \in {"files", "done"})

\* the stage has run on the i-th file
Ran(i, stage) ==
    \E e \in 1..Len(events) : events[e].file = i /\ events[e].stage = stage

\* C31: each file named on the command line is compiled independently of
\* the others: a file that has no error of its own goes through semantic
\* analysis and code generation, and is interpreted when running is asked
\* for, whatever errors were reported for the files before it.
C31_FilesCompiledIndependently ==
    \A i \in 1..Len(files) :
        (Completed(i) /\ files[i] = "ok") =>
            /\ Ran(i, "sema")
            /\ Ran(i, "codegen")
            /\ RunsInterpreter(driver, run_ir, cfg, llvm) => Ran(i, "run")

\* the place of a stage in the order of Compiler.compile
StageRank(stage) ==
    CASE stage = "parse" -> 1 [] stage = "sema" -> 2 [] stage = "codegen" -> 3
      [] stage = "opt" -> 4 [] stage = "llvm" -> 5 [] stage = "run" -> 6
      [] OTHER -> 0

\* the events of stages (not the error summary)
StageEvents == {e \in 1..Len(events) : StageRank(events[e].stage) > 0}

\* stage st has run on the file of event e before it
RanBefore(e, st) ==
    \E d \in 1..(e - 1) : events[d].file = events[e].file /\ events[d].stage = st

\* C32: on each file the stages run in the order parse, semantic analysis,
\* code generation, optimization; semantic analysis starts only with no
\* error reported after parsing, code generation and optimization only with
\* none reported after semantic analysis (optimization only when asked
\* for), and the interpreter is run only with no error reported, running
\* enabled, no CFG output and (new driver) no LLVM output asked for, on the
\* optimized code when optimization is on, else on the generated code.
C32_StagesGatedOnErrors ==
    /\ \A d, e \in StageEvents :
          (d < e /\ events[d].file = events[e].file) =>
              StageRank(events[d].stage) < StageRank(events[e].stage)
    /\ \A e \in StageEvents :
          LET ev == events[e]
          IN  /\ ev.stage = "sema" => ev.errs = 0 /\ RanBefore(e, "parse")
              /\ ev.stage = "codegen" => ev.errs = 0 /\ RanBefore(e, "sema")
              /\ ev.stage = "opt" => ev.errs = 0 /\ opt /\ RanBefore(e, "codegen")
              /\ ev.stage = "run" =>
                    /\ ev.errs = 0
                    /\ RanBefore(e, "codegen")
                    /\ run_ir /\ ~cfg
                    /\ driver = "new" => ~llvm
                    /\ ev.code = IF opt THEN "optcode" ELSE "gencode"
                    /\ opt => RanBefore(e, "opt")

\* two files with -opt: the first went through all stages and its optimized
\* code was run; the second stopped after semantic analysis reported an
\* error
C32_Witness ==
    /\ cstage = "done"
    /\ driver = "old"
    /\ files = <<"ok", "semantic">>
    /\ opt
    /\ \E e \in StageEvents :
          events[e] = [file |-> 1, stage |-> "run", errs |-> 0, code |-> "optcode"]
    /\ Ran(1, "opt")
    /\ Ran(2, "sema")
    /\ ~Ran(2, "codegen")
    /\ errors_reported = 1

====
